---- MODULE Spec2Model ----
(***************************************************************************)
(* Accuracy evaluation engine of the notices testing app                   *)
(* (src/testing_service.py): the field normalizer, the workbook with its   *)
(* Master sheet and three model sheets, the upsert of one model row, the   *)
(* comparison views and the accuracy metrics; and the routes that drive it *)
(* (src/main.py) with the extraction clients (src/gemini_service.py,       *)
(* src/gpt_service.py): upload, bulk-process runs and queries.             *)
(*                                                                         *)
(* A Python string is modelled as a sequence of one-character strings, so  *)
(* that strip(), lower(), split(), replace() and the regular expression of *)
(* normalize_for_comparison are computed character by character.           *)
(***************************************************************************)
EXTENDS Integers, Sequences, FiniteSets, TLC

VARIABLES
    wbExists,   \* os.path.exists(TESTING_EXCEL_PATH)
    sheets,     \* sheet name -> [present, header, rows] of the workbook file
    writes,     \* number of upserts performed so far
    nx,         \* normalizer run: first input value
    ny,         \* normalizer run: second input value (the value compared with nx)
    nf,         \* normalizer run: field name
    npc,        \* normalizer run: "input" | "normalized" | "renormalized"
    nout,       \* normalizer run: results computed so far
    cpc,        \* concurrent upserts: caller -> position in _write_row_to_sheet
    csnap,      \* concurrent upserts: caller -> the workbook it has loaded
    notices,    \* testing_notices table: pdf_filename of each row, in id order
    pdfFiles,   \* documents whose file testing_pdfs/<name> exists
    upl,        \* the response of the upload route, if it was called last
    bulk,       \* the requests of the bulk-process route: request -> its state
    runs,       \* number of bulk-process requests that have arrived
    edits,      \* number of header rows edited outside the engine
    qlog        \* the queries answered since the last upsert, with their results

storeVars == <<wbExists, sheets, writes>>
normVars == <<nx, ny, nf, npc, nout>>
raceVars == <<cpc, csnap>>
uploadVars == <<notices, pdfFiles, upl, bulk, runs, edits>>
appVars == <<notices, pdfFiles, upl, bulk, runs, edits, qlog>>
vars == <<wbExists, sheets, writes, nx, ny, nf, npc, nout, cpc, csnap,
          notices, pdfFiles, upl, bulk, runs, edits, qlog>>

----------------------------------------------------------------------------
(* Bounds of the model *)

\* longest string of the exhaustively enumerated normalizer inputs
MaxLen == 3
\* documents are 1..MaxDocs; the number orders them as sorted() orders the names
MaxDocs == 2
\* upserts per behaviour
MaxWrites == 2
\* bulk-process requests per behaviour
MaxRuns == 2
\* edits of a header row outside the engine (header drift) per behaviour
MaxEdits == 1
\* queries answered between two upserts
MaxQueries == 2
\* ground-truth documents, and upserts, of the accuracy runs
MaxTruth == 4

----------------------------------------------------------------------------
(* Program constants: sheet names and columns *)

MASTER_SHEET == "Master"
GENERATED_SHEET == "2.5 Flash"
GPT_5_1_SHEET == "GPT 5.1"
GPT_5_MINI_SHEET == "GPT 5-Mini"

COLUMNS ==
    << "PDF Name", "Vendor Account Number", "Vendor Name", "Service Address",
       "Notice Category", "Notice Date", "Impact Date", "Impact Amount" >>

\* COLUMNS[1:], the seven non-key fields
FieldCols == { COLUMNS[i] : i \in 2..Len(COLUMNS) }

ModelSheets == { GENERATED_SHEET, GPT_5_1_SHEET, GPT_5_MINI_SHEET }
SheetNames == { MASTER_SHEET } \cup ModelSheets

----------------------------------------------------------------------------
(* Strings as sequences of characters *)

\* "abc" written as a sequence of characters
EmptyStr == << >>

Digits == { "0","1","2","3","4","5","6","7","8","9" }

\* str.isspace() of one character, the test of str.strip() and str.split():
\* the blank, \t, \n, \f, \r, and (written as the characters themselves)
\* \x0b, \x1c, \x1d, \x1e, \x1f, \x85 and \xa0.  Characters are those of
\* Latin-1; the blanks Unicode has beyond it are outside the strings of the
\* model.
IsSpace(c) ==
    c \in { " ", "\t", "\n", "\f", "\r",
            "", "", "", "", "", "", " " }

\* str.lower() on the upper-case letters of Latin-1
LowerOf ==
    ("A" :> "a") @@ ("B" :> "b") @@ ("C" :> "c") @@ ("D" :> "d") @@ ("E" :> "e")
    @@ ("F" :> "f") @@ ("G" :> "g") @@ ("H" :> "h") @@ ("I" :> "i") @@ ("J" :> "j")
    @@ ("K" :> "k") @@ ("L" :> "l") @@ ("M" :> "m") @@ ("N" :> "n") @@ ("O" :> "o")
    @@ ("P" :> "p") @@ ("Q" :> "q") @@ ("R" :> "r") @@ ("S" :> "s") @@ ("T" :> "t")
    @@ ("U" :> "u") @@ ("V" :> "v") @@ ("W" :> "w") @@ ("X" :> "x") @@ ("Y" :> "y")
    @@ ("Z" :> "z")
    @@ ("À" :> "à") @@ ("Á" :> "á") @@ ("Â" :> "â") @@ ("Ã" :> "ã") @@ ("Ä" :> "ä")
    @@ ("Å" :> "å") @@ ("Æ" :> "æ") @@ ("Ç" :> "ç") @@ ("È" :> "è") @@ ("É" :> "é")
    @@ ("Ê" :> "ê") @@ ("Ë" :> "ë") @@ ("Ì" :> "ì") @@ ("Í" :> "í") @@ ("Î" :> "î")
    @@ ("Ï" :> "ï") @@ ("Ð" :> "ð") @@ ("Ñ" :> "ñ") @@ ("Ò" :> "ò") @@ ("Ó" :> "ó")
    @@ ("Ô" :> "ô") @@ ("Õ" :> "õ") @@ ("Ö" :> "ö") @@ ("Ø" :> "ø") @@ ("Ù" :> "ù")
    @@ ("Ú" :> "ú") @@ ("Û" :> "û") @@ ("Ü" :> "ü") @@ ("Ý" :> "ý") @@ ("Þ" :> "þ")

\* str.lower() on one character
LowerChar(c) == IF c \in DOMAIN LowerOf THEN LowerOf[c] ELSE c

\* str.lower()
StrLower(s) == [ i \in 1..Len(s) |-> LowerChar(s[i]) ]

\* the first position from i on that holds no whitespace (Len(s) + 1 when
\* there is none)
RECURSIVE SkipSpaces(_, _)
SkipSpaces(s, i) ==
    IF i <= Len(s) /\ IsSpace(s[i]) THEN SkipSpaces(s, i + 1) ELSE i

\* the last position up to i that holds no whitespace (0 when there is none)
RECURSIVE SkipSpacesBack(_, _)
SkipSpacesBack(s, i) ==
    IF i >= 1 /\ IsSpace(s[i]) THEN SkipSpacesBack(s, i - 1) ELSE i

\* str.strip(): drop leading and trailing whitespace
StrStrip(s) ==
    LET lo == SkipSpaces(s, 1)
    IN  IF lo > Len(s) THEN EmptyStr ELSE SubSeq(s, lo, SkipSpacesBack(s, Len(s)))

\* ' '.join(s.split()): drop leading and trailing whitespace and turn every
\* run of whitespace into one blank
JoinSplit(s) ==
    LET t == StrStrip(s)
        firstOfRun(i) == IsSpace(t[i]) /\ ~IsSpace(t[i-1])
        kept == SelectSeq([ i \in 1..Len(t) |-> i ],
                          LAMBDA i : ~IsSpace(t[i]) \/ firstOfRun(i))
    IN  [ k \in 1..Len(kept) |-> IF IsSpace(t[kept[k]]) THEN " " ELSE t[kept[k]] ]

\* s.replace(c, '')
StrRemove(s, c) == SelectSeq(s, LAMBDA ch : ch # c)

\* the first position from i on that holds a digit (Len(s) + 1 when there
\* is none)
RECURSIVE FirstDigit(_, _)
FirstDigit(s, i) ==
    IF i <= Len(s) /\ s[i] \notin Digits THEN FirstDigit(s, i + 1) ELSE i

\* end of the maximal run of digits of s that starts at position i
\* (i - 1 when s[i] is no digit)
RECURSIVE DigitRunEnd(_, _)
DigitRunEnd(s, i) ==
    IF i <= Len(s) /\ s[i] \in Digits THEN DigitRunEnd(s, i + 1) ELSE i - 1

\* re.findall(r'\d+\.?\d*', s): the first match, or the empty string when
\* there is none
FirstNumber(s) ==
    LET b == FirstDigit(s, 1)
    IN  IF b > Len(s) THEN EmptyStr
        ELSE LET e1 == DigitRunEnd(s, b)
                 e2 == IF e1 + 1 <= Len(s) /\ s[e1 + 1] = "." THEN e1 + 1 ELSE e1
                 e3 == IF e2 > e1 THEN DigitRunEnd(s, e2 + 1) ELSE e2
             IN  SubSeq(s, b, e3)

----------------------------------------------------------------------------
(* Field Normalizer *)

\* the amount branch of normalize_for_comparison
normalize_amount(value_str) == FirstNumber(value_str)

\* the branch of normalize_for_comparison for every other field
normalize_text(value_str) ==
    StrRemove(StrRemove(JoinSplit(StrLower(value_str)), ","), "-")

normalize_for_comparison(value, field_name) ==
    IF value = EmptyStr THEN EmptyStr
    ELSE LET value_str == StrStrip(value)
         IN  IF field_name = "Impact Amount"
             THEN normalize_amount(value_str)
             ELSE normalize_text(value_str)

----------------------------------------------------------------------------
(* The workbook file *)

\* a document identifier (a PDF file name); the number gives its place in
\* sorted() order
Docs == 1..MaxDocs

\* A sheet is [present, header, rows].  header tells what row 1 holds:
\*   "canonical"  exactly COLUMNS
\*   "reordered"  every column name, in another order
\*   "blank"      no cell of row 1 is a column name
\* Between two operations the model sheets have the header COLUMNS; the
\* Master sheet of a workbook the engine created has a blank row 1.
\* rows are the rows below row 1, each [pdf, fields]: the PDF Name cell and
\* the cells of the seven other columns by column name.

\* a sheet the workbook does not hold
AbsentSheet == [ present |-> FALSE, header |-> "blank", rows |-> << >> ]

\* wb.create_sheet(name) followed by append(COLUMNS)
NewModelSheet == [ present |-> TRUE, header |-> "canonical", rows |-> << >> ]

\* the active sheet of Workbook(), titled Master: nothing is appended to it
NewMasterSheet == [ present |-> TRUE, header |-> "blank", rows |-> << >> ]

\* the store before anything was written: no workbook file
NoWorkbook == [ s \in SheetNames |-> AbsentSheet ]

\* "123-45"
V_Account_A == << "1", "2", "3", "-", "4", "5" >>
\* "Acme Power, Inc"
V_Vendor_A == << "A", "c", "m", "e", " ", "P", "o", "w", "e", "r", ",", " ", "I", "n", "c" >>
\* "12 Main St"
V_Address_A == << "1", "2", " ", "M", "a", "i", "n", " ", "S", "t" >>
\* "Late Notice"
V_LateNotice == << "L", "a", "t", "e", " ", "N", "o", "t", "i", "c", "e" >>
\* "2024-01-05"
V_NoticeDate_A == << "2", "0", "2", "4", "-", "0", "1", "-", "0", "5" >>
\* "2024-02-01"
V_ImpactDate_A == << "2", "0", "2", "4", "-", "0", "2", "-", "0", "1" >>
\* "$1,200.00"
V_Amount_A == << "$", "1", ",", "2", "0", "0", ".", "0", "0" >>
\* "98765"
V_Account_B == << "9", "8", "7", "6", "5" >>
\* "City Water"
V_Vendor_B == << "C", "i", "t", "y", " ", "W", "a", "t", "e", "r" >>
\* "7 Oak Ave"
V_Address_B == << "7", " ", "O", "a", "k", " ", "A", "v", "e" >>
\* "Maintenance"
V_Maintenance == << "M", "a", "i", "n", "t", "e", "n", "a", "n", "c", "e" >>
\* "2024-03-10"
V_NoticeDate_B == << "2", "0", "2", "4", "-", "0", "3", "-", "1", "0" >>
\* "NA"
V_NA == << "N", "A" >>
\* "Other Co"
V_OtherVendor == << "O", "t", "h", "e", "r", " ", "C", "o" >>
\* "2024-01-06"
V_OtherDate == << "2", "0", "2", "4", "-", "0", "1", "-", "0", "6" >>
\* "1500.00"
V_OtherAmount == << "1", "5", "0", "0", ".", "0", "0" >>
\* "Outage", a category that is none of the nine labels
V_Unlisted == << "O", "u", "t", "a", "g", "e" >>
\* "2024-04-20"
V_NoticeDate_C == << "2", "0", "2", "4", "-", "0", "4", "-", "2", "0" >>

\* a late notice: impact date and amount are set
GT_A ==
    ("Vendor Account Number" :> V_Account_A) @@ ("Vendor Name" :> V_Vendor_A)
    @@ ("Service Address" :> V_Address_A) @@ ("Notice Category" :> V_LateNotice)
    @@ ("Notice Date" :> V_NoticeDate_A) @@ ("Impact Date" :> V_ImpactDate_A)
    @@ ("Impact Amount" :> V_Amount_A)

\* a notice the curator labelled with a category outside the nine labels:
\* impact date and amount are "NA"
GT_B ==
    ("Vendor Account Number" :> V_Account_B) @@ ("Vendor Name" :> V_Vendor_B)
    @@ ("Service Address" :> V_Address_B) @@ ("Notice Category" :> V_Unlisted)
    @@ ("Notice Date" :> V_NoticeDate_B) @@ ("Impact Date" :> V_NA)
    @@ ("Impact Amount" :> V_NA)

\* a maintenance notice of the vendor of GT_B
GT_C ==
    [ GT_B EXCEPT !["Notice Category"] = V_Maintenance,
                  !["Notice Date"] = V_NoticeDate_C ]

\* the record the curator enters in Master for document d
GroundTruth(d) == IF d % 3 = 1 THEN GT_A ELSE IF d % 3 = 2 THEN GT_B ELSE GT_C

\* the nine labels of calculate_category_accuracy, in its order
categories ==
    <<
       << "L", "a", "t", "e", " ", "N", "o", "t", "i", "c", "e" >>,
       << "M", "a", "i", "n", "t", "e", "n", "a", "n", "c", "e" >>,
       << "A", "d", "d", "r", "e", "s", "s", " ", "C", "h", "a", "n", "g", "e" >>,
       << "C", "h", "e", "q", "u", "e", " ", "R", "e", "c", "e", "i", "v", "e", "d" >>,
       << "D", "i", "s", "c", "o", "n", "n", "e", "c", "t", " ", "N", "o", "t", "i", "c", "e" >>,
       << "R", "a", "t", "e", " ", "C", "h", "a", "n", "g", "e" >>,
       << "R", "e", "v", "e", "r", "t", " ", "t", "o", " ", "O", "w", "n", "e", "r" >>,
       << "3", "r", "d", " ", "P", "a", "r", "t", "y", " ", "A", "u", "d", "i", "t" >>,
       << "O", "t", "h", "e", "r", "s" >>
    >>

CategorySet == { categories[i] : i \in 1..Len(categories) }

\* "Others"
V_Others == categories[Len(categories)]

\* ['Disconnect Notice', 'Late Notice']
ImpactCategories == { categories[5], categories[1] }

\* the three fields the verdict looks at
vendor_fields == { "Vendor Account Number", "Vendor Name", "Service Address" }

\* m with every field but the amount in lower case and without commas and
\* hyphens
FoldedText(m) ==
    [ f \in FieldCols |->
        IF f # "Impact Amount"
        THEN StrRemove(StrRemove(StrLower(m[f]), ","), "-")
        ELSE m[f] ]

\* value v with a blank before and after it
Padded(v) == << " " >> \o v \o << " " >>

\* m with the text fields folded and blanks around the amount
FoldedPadded(m) == [ FoldedText(m) EXCEPT !["Impact Amount"] = Padded(@) ]

\* m with another vendor name and another amount, and with blanks around
\* the category and the two dates
OtherVendorPadded(m) ==
    [ m EXCEPT !["Vendor Name"] = V_OtherVendor,
               !["Impact Amount"] = V_OtherAmount,
               !["Notice Category"] = Padded(@),
               !["Notice Date"] = Padded(@),
               !["Impact Date"] = Padded(@) ]

----------------------------------------------------------------------------
(* Extraction client (src/gemini_service.py, src/gpt_service.py) *)

\* What the model call gives: ok = FALSE when the call or json.loads
\* raised; else data holds, per field, << >> for a key that is missing or
\* null and << v >> for the value v.  The JSON keys are named by the
\* columns they end up in (vendor_account_number is "Vendor Account
\* Number", and so on).

\* the dict `defaults` of the extraction client
defaults ==
    [ k \in FieldCols |-> IF k = "Notice Category" THEN V_Others ELSE V_NA ]

\* the model call raised, or its answer was no JSON
FailedAnswer == [ ok |-> FALSE, data |-> [ k \in FieldCols |-> << >> ] ]

\* the model answered with the record m
Answered(m) == [ ok |-> TRUE, data |-> [ k \in FieldCols |-> << m[k] >> ] ]

\* an extraction client that keeps the impact fields of every category
extract_testing_fields_keeping_impact(answer) ==
    IF ~answer.ok THEN << defaults >>
    ELSE << [ k \in FieldCols |->
                IF answer.data[k] = << >> \/ StrStrip(answer.data[k][1]) = EmptyStr
                THEN defaults[k]
                ELSE StrStrip(answer.data[k][1]) ] >>

\* an extraction client that lets the failure of the model call propagate:
\* no record (<< >>) instead of the defaults
extract_testing_fields_raising(answer) ==
    IF ~answer.ok THEN << >>
    ELSE LET data == [ k \in FieldCols |->
                         IF answer.data[k] = << >> \/ StrStrip(answer.data[k][1]) = EmptyStr
                         THEN defaults[k]
                         ELSE StrStrip(answer.data[k][1]) ]
         IN  IF data["Notice Category"] \notin ImpactCategories
             THEN << [ data EXCEPT !["Impact Date"] = V_NA, !["Impact Amount"] = V_NA ] >>
             ELSE << data >>

\* extract_testing_fields_from_pdf and _extract_testing_fields_from_pdf_gpt
\* with _normalize_testing_output: << the record returned >>.  A failure
\* gives the defaults; a missing, null or blank value gives the field's
\* default; every other value is stripped; a category other than Late
\* Notice and Disconnect Notice forces both impact fields to "NA".
extract_testing_fields(answer) ==
    IF ~answer.ok THEN << defaults >>
    ELSE LET data == [ k \in FieldCols |->
                         IF answer.data[k] = << >> \/ StrStrip(answer.data[k][1]) = EmptyStr
                         THEN defaults[k]
                         ELSE StrStrip(answer.data[k][1]) ]
         IN  IF data["Notice Category"] \notin ImpactCategories
             THEN << [ data EXCEPT !["Impact Date"] = V_NA, !["Impact Amount"] = V_NA ] >>
             ELSE << data >>

\* excel_fields of the bulk-process routes: testing_result.get(key, default)
\* per column
excel_fields(testing_result) ==
    [ col \in FieldCols |->
        IF col \in DOMAIN testing_result THEN testing_result[col] ELSE defaults[col] ]

\* the answers of a model for document d that the store runs explore: the
\* ground truth itself; the ground truth with the text fields written
\* differently and blanks around the amount; with another notice date; and
\* with another vendor name, another amount and blanks around the category
\* and the dates
ModelAnswers(d) ==
    LET m == GroundTruth(d)
    IN  { Answered(m),
          Answered(FoldedPadded(m)),
          Answered([ m EXCEPT !["Notice Date"] = V_OtherDate ]),
          Answered(OtherVendorPadded(m)) }

\* the record the bulk-process route writes for the answer
RowOfAnswer(answer) == excel_fields(extract_testing_fields(answer)[1])

\* the records the bulk-process routes write for document d
ModelOutputs(d) == { RowOfAnswer(a) : a \in ModelAnswers(d) }

\* the records explored per model sheet and document: all of ModelOutputs
\* for Gemini; for GPT 5.1 the ground truth and the record with another
\* vendor name; for GPT 5-Mini the ground truth and the record with another
\* notice date
OutputsBySheet ==
    [ s \in ModelSheets |->
        [ d \in Docs |->
            IF s = GENERATED_SHEET THEN ModelOutputs(d)
            ELSE IF s = GPT_5_1_SHEET
            THEN { GroundTruth(d), RowOfAnswer(Answered(OtherVendorPadded(GroundTruth(d)))) }
            ELSE { GroundTruth(d),
                   [ GroundTruth(d) EXCEPT !["Notice Date"] = V_OtherDate ] } ] ]

\* the records the curator may enter in Master for document d: the ground
\* truth, and for a late notice also the ground truth typed with blanks
\* around the two dates and the amount
CuratedRecords(d) ==
    LET m == GroundTruth(d)
    IN  IF m["Notice Category"] = V_LateNotice
        THEN { m, [ m EXCEPT !["Notice Date"] = Padded(@),
                             !["Impact Date"] = Padded(@),
                             !["Impact Amount"] = Padded(@) ] }
        ELSE { m }

\* the Master sheet the curator prepared for the documents 1..k
CuratedMaster(k) ==
    [ present |-> TRUE, header |-> "canonical",
      rows |-> [ d \in 1..k |-> [ pdf |-> d, fields |-> GroundTruth(d) ] ] ]

\* the set of documents that have a row in sheet ws
RowDocs(ws) == { ws.rows[i].pdf : i \in 1..Len(ws.rows) }

\* _ensure_workbook_and_sheets: the sheets of the saved workbook
EnsureWorkbookAndSheets(exists, shs) ==
    IF ~exists
    THEN [ s \in SheetNames |->
             IF s = MASTER_SHEET THEN NewMasterSheet ELSE NewModelSheet ]
    ELSE [ s \in SheetNames |->
             IF s \in ModelSheets /\ ~shs[s].present THEN NewModelSheet ELSE shs[s] ]

\* the upsert of _write_row_to_sheet that appends a row even when the
\* document already has one
UpsertAlwaysAppend(ws, pdf_name, fields) ==
    [ present |-> TRUE,
      header  |-> "canonical",
      rows    |-> Append(IF ws.header # "canonical" THEN << >> ELSE ws.rows,
                         [ pdf |-> pdf_name, fields |-> fields ]) ]

\* an upsert that rewrites the sheet whatever its header row is
UpsertRewritingSheet(ws, pdf_name, fields) ==
    [ present |-> TRUE,
      header  |-> "canonical",
      rows    |-> << [ pdf |-> pdf_name, fields |-> fields ] >> ]

\* _write_row_to_sheet on the loaded sheet ws: a header row other than
\* COLUMNS makes it delete every row and append COLUMNS; then the first row
\* whose PDF Name is pdf_name is overwritten, or a row is added after the
\* last one
Upsert(ws, pdf_name, fields) ==
    LET kept == IF ws.header # "canonical" THEN << >> ELSE ws.rows
        hits == { i \in 1..Len(kept) : kept[i].pdf = pdf_name }
        row  == [ pdf |-> pdf_name, fields |-> fields ]
    IN  [ present |-> TRUE,
          header  |-> "canonical",
          rows    |-> IF hits = {}
                      THEN Append(kept, row)
                      ELSE LET target_row == CHOOSE i \in hits : \A j \in hits : i <= j
                           IN  [ kept EXCEPT ![target_row] = row ] ]

\* _write_row_to_sheet(sheet_name, pdf_name, fields) on the store
\* (exists, shs): the sheets of the workbook it saves.  found_header is row
\* 1 of the sheet as loaded.
_write_row_to_sheet(exists, shs, sheet_name, pdf_name, fields, found_header) ==
    LET ensured == EnsureWorkbookAndSheets(exists, shs)
        ws == [ ensured[sheet_name] EXCEPT !.header = found_header ]
    IN  [ ensured EXCEPT ![sheet_name] = Upsert(ws, pdf_name, fields) ]

\* no normalizer run is in progress
NormIdle ==
    /\ nx = EmptyStr
    /\ ny = EmptyStr
    /\ nf = "PDF Name"
    /\ npc = "idle"
    /\ nout = [ x |-> EmptyStr, y |-> EmptyStr, mismatch |-> FALSE, again |-> EmptyStr ]

\* the callers of the concurrent upserts: one per document
Callers == Docs

\* no concurrent upsert is in progress
RaceIdle ==
    /\ cpc = [ c \in Callers |-> "idle" ]
    /\ csnap = [ c \in Callers |->
                   [ exists |-> FALSE, shs |-> NoWorkbook, sheet |-> GENERATED_SHEET ] ]

\* the workbook a request holds when it has loaded none
NoSnapshot == [ exists |-> FALSE, shs |-> NoWorkbook ]

\* a request of the bulk-process route that has not arrived.  Of a request:
\* pc is its position, todo the notices it read from the table and i the
\* one it is at, processed, skipped and errors the counters of its
\* response (errors the length of the list), pending the excel_fields it
\* is about to write, snap the workbook it has loaded; failed are the
\* documents for which its call of the model failed, rowed the documents
\* it has skipped for their row or written a row for, fresh tells that
\* nothing has changed the workbook, testing_pdfs or the table since it
\* returned, follows that it arrived when such a request without
\* errors, which had read the table as it is, was the last thing to happen
\* and that only itself has changed them since.
NoRun ==
    [ pc |-> "idle", model |-> GENERATED_SHEET, todo |-> << >>, i |-> 0,
      processed |-> 0, skipped |-> 0, errors |-> 0,
      pending |-> << >>, snap |-> NoSnapshot,
      failed |-> {}, rowed |-> {}, fresh |-> FALSE, follows |-> FALSE ]

\* the upload route was not the last to be called
NoUpload == [ filename |-> 0, status |-> 0 ]

\* nothing was uploaded and no bulk-process run was made
AppIdle ==
    /\ notices = << >>
    /\ pdfFiles = {}
    /\ upl = NoUpload
    /\ bulk = [ r \in 1..MaxRuns |-> NoRun ]
    /\ runs = 0
    /\ edits = 0
    /\ qlog = << >>

\* The workbook is absent, or it was prepared by hand with any of the four
\* sheets, each holding the header row only.
Init ==
    /\ \/ wbExists = FALSE /\ sheets = NoWorkbook
       \/ /\ wbExists = TRUE
          /\ \E have \in (SUBSET SheetNames) \ { {} } :
                sheets = [ s \in SheetNames |->
                             IF s \in have THEN NewModelSheet ELSE AbsentSheet ]
    /\ writes = 0
    /\ NormIdle
    /\ RaceIdle
    /\ AppIdle

\* the header rows an upsert can find in the sheet it loads: COLUMNS, or
\* what a manual edit of row 1 left (the columns reordered, the cells cleared)
HeaderStates == { "canonical", "reordered", "blank" }

\* write_generated_row, write_generated_row_gpt_5_1, write_generated_row_gpt_5_mini:
\* one sequential upsert of the record `fields` for document pdf_name.
\* found_header is row 1 of the sheet as the upsert loads it; a sheet that
\* _ensure_workbook_and_sheets has just created has the header COLUMNS.
WriteRow(sheet_name, pdf_name, fields, found_header) ==
    /\ writes < MaxWrites
    /\ (~wbExists \/ ~sheets[sheet_name].present) => found_header = "canonical"
    /\ sheets' = _write_row_to_sheet(wbExists, sheets, sheet_name, pdf_name, fields,
                                     found_header)
    /\ wbExists' = TRUE
    /\ writes' = writes + 1
    /\ qlog' = << >>
    /\ UNCHANGED normVars
    /\ UNCHANGED raceVars
    /\ UNCHANGED uploadVars

\* the external curation process adds the row of the next document d to
\* the Master sheet (writing the header row if the sheet is empty)
CurateMaster(d, fields) ==
    /\ wbExists
    /\ sheets[MASTER_SHEET].present
    /\ d = Len(sheets[MASTER_SHEET].rows) + 1
    /\ sheets' = [ sheets EXCEPT
                     ![MASTER_SHEET].header = "canonical",
                     ![MASTER_SHEET].rows =
                         Append(@, [ pdf |-> d, fields |-> fields ]) ]
    /\ UNCHANGED << wbExists, writes >>
    /\ UNCHANGED normVars
    /\ UNCHANGED raceVars
    /\ UNCHANGED appVars

Next ==
    \/ \E s \in ModelSheets, d \in Docs, h \in HeaderStates :
          \E r \in OutputsBySheet[s][d] : WriteRow(s, d, r, h)
    \/ \E d \in Docs : \E fields \in CuratedRecords(d) : CurateMaster(d, fields)

Spec == Init /\ [][Next]_vars

----------------------------------------------------------------------------
(* Accuracy runs: the curator has prepared a ground-truth table of
   MaxTruth documents, or of one less, and the extraction workflow, which
   takes the documents in the order of their names, upserts rows of
   Gemini and of GPT 5.1; the metrics are functions of the workbook
   reached. *)

\* the documents of the accuracy runs
TruthDocs == 1..MaxTruth

\* the model sheets the accuracy runs write to
AccuracySheets == { GENERATED_SHEET, GPT_5_1_SHEET }

\* the value with a blank for each hyphen: "2024 01 05"
Respaced(value) == [ i \in 1..Len(value) |-> IF value[i] = "-" THEN " " ELSE value[i] ]

\* the records the accuracy runs write per model sheet and document.
\* Gemini: the ground truth, the record with another vendor name, and the
\* ground truth with blanks for the hyphens of its Notice Date; GPT 5.1:
\* the ground truth, and the ground truth with the Notice Date written
\* without its hyphens
AccuracyOutputs ==
    [ s \in AccuracySheets |->
        [ d \in TruthDocs |->
            LET m == GroundTruth(d)
            IN  IF s = GENERATED_SHEET
                THEN { RowOfAnswer(Answered(m)),
                       RowOfAnswer(Answered(OtherVendorPadded(m))),
                       RowOfAnswer(Answered([ m EXCEPT !["Notice Date"] = Respaced(@) ])) }
                ELSE { RowOfAnswer(Answered(m)),
                       RowOfAnswer(Answered([ m EXCEPT !["Notice Date"] =
                                                         StrRemove(@, "-") ])) } ] ]

\* the workbook holds the curated Master sheet and the three model sheets
\* as _ensure_workbook_and_sheets adds them
InitAccuracy ==
    /\ wbExists = TRUE
    /\ \E k \in { MaxTruth - 1, MaxTruth } :
          sheets = [ s \in SheetNames |->
                       IF s = MASTER_SHEET THEN CuratedMaster(k) ELSE NewModelSheet ]
    /\ writes = 0
    /\ NormIdle
    /\ RaceIdle
    /\ AppIdle

\* write_generated_row or write_generated_row_gpt_5_1 called for any
\* document, in any order: the row of a document that has one is
\* overwritten, the row of another is appended after the last
WriteNextRow(sheet_name, pdf_name, fields) ==
    /\ writes < MaxTruth
    /\ sheets' = _write_row_to_sheet(wbExists, sheets, sheet_name, pdf_name, fields,
                                     sheets[sheet_name].header)
    /\ wbExists' = TRUE
    /\ writes' = writes + 1
    /\ UNCHANGED normVars
    /\ UNCHANGED raceVars
    /\ UNCHANGED appVars

NextAccuracy ==
    \E s \in AccuracySheets, d \in TruthDocs :
        \E r \in AccuracyOutputs[s][d] : WriteNextRow(s, d, r)

SpecAccuracy == InitAccuracy /\ [][NextAccuracy]_vars

----------------------------------------------------------------------------
(* Concurrent upserts: write_generated_row or write_generated_row_gpt_5_1
   called by several requests at once, each for its own document.  Nothing in _write_row_to_sheet holds a
   lock, so the loads and saves of the callers interleave freely:
     idle --EnsureLoad--> ensuring --EnsureSave--> ensured
          --LoadWorkbook--> loaded --SaveWorkbook--> done *)

\* the sheet of write_generated_row
RaceSheet == GENERATED_SHEET

\* the sheets the concurrent callers write to: a caller runs
\* write_generated_row or write_generated_row_gpt_5_1
RaceSheets == { GENERATED_SHEET, GPT_5_1_SHEET }

\* a save that writes the row of (pdf_name, fields) into what the file on
\* disk holds at that moment instead of replacing the file
SaveMerged(on_disk, loaded, sheet_name, pdf_name, fields) ==
    [ on_disk EXCEPT ![sheet_name] = Upsert(on_disk[sheet_name], pdf_name, fields) ]

\* the file that wb.save leaves after the upsert of (pdf_name, fields) into
\* sheet_name was applied to the loaded workbook: the loaded workbook with
\* the row, whatever the file on disk holds by then
SaveLoaded(on_disk, loaded, sheet_name, pdf_name, fields) ==
    [ loaded EXCEPT ![sheet_name] = Upsert(loaded[sheet_name], pdf_name, fields) ]

InitRace ==
    /\ \/ wbExists = FALSE /\ sheets = NoWorkbook
       \/ /\ wbExists = TRUE
          /\ \E have \in (SUBSET SheetNames) \ { {} } :
                sheets = [ s \in SheetNames |->
                             IF s \in have THEN NewModelSheet ELSE AbsentSheet ]
    /\ writes = 0
    /\ NormIdle
    /\ RaceIdle
    /\ AppIdle

\* caller c enters _write_row_to_sheet(sheet_name, ...);
\* _ensure_workbook_and_sheets, first half: os.path.exists and, for an
\* existing file, load_workbook
EnsureLoad(c, sheet_name) ==
    /\ cpc[c] = "idle"
    /\ cpc' = [ cpc EXCEPT ![c] = "ensuring" ]
    /\ csnap' = [ csnap EXCEPT ![c] =
                    [ exists |-> wbExists, shs |-> sheets, sheet |-> sheet_name ] ]
    /\ UNCHANGED storeVars
    /\ UNCHANGED normVars
    /\ UNCHANGED appVars

\* _ensure_workbook_and_sheets, second half: the new workbook, or the
\* loaded one with the missing model sheets added, is saved
EnsureSave(c) ==
    /\ cpc[c] = "ensuring"
    /\ cpc' = [ cpc EXCEPT ![c] = "ensured" ]
    /\ sheets' = EnsureWorkbookAndSheets(csnap[c].exists, csnap[c].shs)
    /\ wbExists' = TRUE
    /\ UNCHANGED << writes, csnap >>
    /\ UNCHANGED normVars
    /\ UNCHANGED appVars

\* wb = load_workbook(TESTING_EXCEL_PATH)
LoadWorkbook(c) ==
    /\ cpc[c] = "ensured"
    /\ cpc' = [ cpc EXCEPT ![c] = "loaded" ]
    /\ csnap' = [ csnap EXCEPT ![c] =
                    [ exists |-> TRUE, shs |-> sheets, sheet |-> csnap[c].sheet ] ]
    /\ UNCHANGED storeVars
    /\ UNCHANGED normVars
    /\ UNCHANGED appVars

\* the row of document c is written into the loaded workbook and
\* wb.save(TESTING_EXCEL_PATH) replaces the file
SaveWorkbook(c) ==
    /\ cpc[c] = "loaded"
    /\ cpc' = [ cpc EXCEPT ![c] = "done" ]
    /\ sheets' = SaveLoaded(sheets, csnap[c].shs, csnap[c].sheet, c, GroundTruth(c))
    /\ wbExists' = TRUE
    /\ UNCHANGED << writes, csnap >>
    /\ UNCHANGED normVars
    /\ UNCHANGED appVars

NextRace ==
    \/ \E c \in Callers, s \in RaceSheets : EnsureLoad(c, s)
    \/ \E c \in Callers : EnsureSave(c)
    \/ \E c \in Callers : LoadWorkbook(c)
    \/ \E c \in Callers : SaveWorkbook(c)

SpecRace == InitRace /\ [][NextRace]_vars

----------------------------------------------------------------------------
(* Uploads and bulk-process runs (src/main.py).  The three bulk-process
   routes differ in the model sheet only and none reads the sheet of
   another; a behaviour calls one of them, chosen at the start (the model
   of every request).  Up to MaxRuns requests of the route are served,
   one after the other or at the same time by several worker processes.
   A request is served in steps, and nothing holds a lock on the workbook,
   on testing_pdfs or on the table between two of them:
     idle --testing_bulk_process--> visit
     visit --VisitNotice--> visit (skipped) | extract
     extract --ModelReturns--> visit (error) | ensuring
     ensuring --RunEnsureSave--> ensured --RunLoadWorkbook--> loaded
     loaded --RunSaveWorkbook--> visit
   and from the last notice to returned.  The uploads and the drift of a
   header row happen at any moment.  A
   save replaces the workbook file in one step. *)

\* the requests of the bulk-process route, in the order of their arrival
Requests == 1..MaxRuns

\* the sheet of the bulk-process route of the behaviour
RouteSheet == bulk[1].model

\* something other than request r has changed the workbook, testing_pdfs
\* or the table: no run but r is then the last thing that happened, nor
\* follows such a run undisturbed (r = 0: no request is spared)
Disturbed(b, r) ==
    [ q \in DOMAIN b |->
        IF q = r THEN b[q] ELSE [ b[q] EXCEPT !.fresh = FALSE, !.follows = FALSE ] ]

\* an upload handler that accepts every filename
is_pdf_anywhere(exists, shs, pdf_name) == TRUE

\* is_pdf_in_master(pdf_name) on the store (exists, shs)
is_pdf_in_master(exists, shs, pdf_name) ==
    IF ~exists THEN FALSE
    ELSE IF ~shs[MASTER_SHEET].present THEN FALSE
    ELSE IF shs[MASTER_SHEET].header = "blank" THEN FALSE
    ELSE pdf_name \in RowDocs(shs[MASTER_SHEET])

\* is_pdf_in_generated(pdf_name, model) on the store (exists, shs), the
\* model given by its sheet
is_pdf_in_generated(exists, shs, pdf_name, sheet_name) ==
    IF ~exists THEN FALSE
    ELSE IF ~shs[sheet_name].present THEN FALSE
    ELSE IF shs[sheet_name].header = "blank" THEN FALSE
    ELSE pdf_name \in RowDocs(shs[sheet_name])

\* the model files the notice m under Maintenance with an impact date and
\* an amount, without a vendor name and with a blank service address
UnsolicitedImpact(m) ==
    [ ok |-> TRUE,
      data |-> [ k \in FieldCols |->
                   IF k = "Notice Category" THEN << V_Maintenance >>
                   ELSE IF k = "Impact Date" THEN << V_ImpactDate_A >>
                   ELSE IF k = "Impact Amount" THEN << V_Amount_A >>
                   ELSE IF k = "Vendor Name" THEN << >>
                   ELSE IF k = "Service Address" THEN << << " ", " " >> >>
                   ELSE << m[k] >> ] ]

\* what the model answers for document d in a bulk-process run when the
\* call succeeds: a late notice comes with blanks around the category and
\* the dates, every other notice as UnsolicitedImpact
BulkAnswer(d) ==
    LET m == GroundTruth(d)
    IN  IF m["Notice Category"] \in ImpactCategories
        THEN Answered(OtherVendorPadded(m))
        ELSE UnsolicitedImpact(m)

\* what can happen to a notice that is not skipped: the model answers, the
\* model call fails, or the PDF cannot be read (open raises)
VisitChoices == { "answered", "failed", "unreadable" }

\* the cells of the first row of document d in sheet ws, << >> without one
FirstRow(ws, d) ==
    LET hits == { i \in 1..Len(ws.rows) : ws.rows[i].pdf = d }
    IN  IF hits = {} THEN << >>
        ELSE << ws.rows[CHOOSE i \in hits : \A j \in hits : i <= j].fields >>

\* The workbook is absent, or it was prepared by hand: a Master sheet with
\* the rows of all documents or of all but the last, and a Gemini sheet
\* with the header row; or a workbook that has no Master sheet.
InitBulk ==
    /\ \/ wbExists = FALSE /\ sheets = NoWorkbook
       \/ /\ wbExists = TRUE
          /\ sheets = [ s \in SheetNames |->
                          IF s = GENERATED_SHEET THEN NewModelSheet ELSE AbsentSheet ]
       \/ /\ wbExists = TRUE
          /\ \E k \in { MaxDocs - 1, MaxDocs } :
                sheets = [ s \in SheetNames |->
                             IF s = MASTER_SHEET THEN CuratedMaster(k)
                             ELSE IF s = GENERATED_SHEET THEN NewModelSheet
                             ELSE AbsentSheet ]
    /\ writes = 0
    /\ NormIdle
    /\ RaceIdle
    /\ notices = << >>
    /\ pdfFiles = {}
    /\ upl = NoUpload
    /\ \E m \in ModelSheets : bulk = [ r \in Requests |-> [ NoRun EXCEPT !.model = m ] ]
    /\ runs = 0
    /\ edits = 0
    /\ qlog = << >>

\* testing_upload_pdf(file): 400 when the filename is not in the Master
\* sheet; else the file is written to testing_pdfs and a TestingNotice is
\* added
testing_upload_pdf(filename) ==
    /\ IF ~is_pdf_in_master(wbExists, sheets, filename)
       THEN /\ upl' = [ filename |-> filename, status |-> 400 ]
            /\ UNCHANGED << notices, pdfFiles, bulk >>
       ELSE /\ Len(notices) < MaxDocs
            /\ pdfFiles' = pdfFiles \cup { filename }
            /\ notices' = Append(notices, filename)
            /\ upl' = [ filename |-> filename, status |-> 200 ]
            /\ bulk' = Disturbed(bulk, 0)
    /\ UNCHANGED << runs, edits, qlog >>
    /\ UNCHANGED storeVars
    /\ UNCHANGED normVars
    /\ UNCHANGED raceVars

\* header drift: row 1 of the model sheet of the route, which holds rows,
\* is changed outside the engine (the workbook is a file that is curated
\* by hand): the columns are put in another order, or the cells are
\* cleared; the next upsert finds header_row != COLUMNS
EditHeader(sheet_name, header) ==
    /\ sheet_name = RouteSheet
    /\ edits < MaxEdits
    /\ wbExists
    /\ sheets[sheet_name].present
    /\ sheets[sheet_name].header = "canonical"
    /\ sheets[sheet_name].rows # << >>
    /\ header # "canonical"
    /\ sheets' = [ sheets EXCEPT ![sheet_name].header = header ]
    /\ edits' = edits + 1
    /\ bulk' = Disturbed(bulk, 0)
    /\ upl' = NoUpload
    /\ UNCHANGED << wbExists, writes >>
    /\ UNCHANGED << notices, pdfFiles, runs, qlog >>
    /\ UNCHANGED normVars
    /\ UNCHANGED raceVars

\* the loop of testing_bulk_process goes to the next notice, or the
\* response is returned after the last one
NextNotice(run) ==
    IF run.i >= Len(run.todo)
    THEN [ run EXCEPT !.pc = "returned", !.i = 0, !.pending = << >>,
                      !.snap = NoSnapshot, !.fresh = TRUE ]
    ELSE [ run EXCEPT !.pc = "visit", !.i = @ + 1, !.pending = << >>,
                      !.snap = NoSnapshot ]

\* testing_bulk_process, testing_bulk_process_gpt_5_1,
\* testing_bulk_process_gpt_5_mini for the model of sheet_name: request r
\* arrives and reads the table (notices = db.query(TestingNotice).all())
testing_bulk_process(r, sheet_name) ==
    /\ runs < MaxRuns
    /\ r = runs + 1
    /\ sheet_name = bulk[r].model
    /\ bulk[r].pc = "idle"
    /\ runs' = runs + 1
    /\ bulk' = [ bulk EXCEPT ![r] =
                   NextNotice([ @ EXCEPT
                       !.todo = notices,
                       !.follows =
                           /\ \A q \in Requests : bulk[q].pc \in { "idle", "returned" }
                           /\ \E q \in Requests :
                                 bulk[q].pc = "returned" /\ bulk[q].fresh
                                     /\ bulk[q].errors = 0
                                     /\ bulk[q].todo = notices ]) ]
    /\ upl' = NoUpload
    /\ UNCHANGED << notices, pdfFiles, edits, qlog >>
    /\ UNCHANGED storeVars
    /\ UNCHANGED normVars
    /\ UNCHANGED raceVars

\* the head of the loop body for notice i of request r: skipped when the
\* file is gone or is_pdf_in_generated finds the document in the workbook
\* as it is now; else the file is read and the model is called
VisitNotice(r) ==
    /\ bulk[r].pc = "visit"
    /\ LET run == bulk[r]
           d == run.todo[run.i]
       IN  bulk' = [ bulk EXCEPT ![r] =
                       IF d \notin pdfFiles
                       THEN NextNotice([ run EXCEPT !.skipped = @ + 1 ])
                       ELSE IF is_pdf_in_generated(wbExists, sheets, d, run.model)
                       THEN NextNotice([ run EXCEPT !.skipped = @ + 1,
                                                    !.rowed = @ \cup { d } ])
                       ELSE [ run EXCEPT !.pc = "extract" ] ]
    /\ upl' = NoUpload
    /\ UNCHANGED << notices, pdfFiles, runs, edits, qlog >>
    /\ UNCHANGED storeVars
    /\ UNCHANGED normVars
    /\ UNCHANGED raceVars

\* the wait of request r for the model ends: open has raised or the
\* extraction raises (an entry of errors), or extract_testing_fields
\* returns, excel_fields is built and write_generated_row begins with
\* _ensure_workbook_and_sheets, first half: os.path.exists and, for an
\* existing file, load_workbook
ModelReturns(r, choice) ==
    /\ bulk[r].pc = "extract"
    /\ LET run == bulk[r]
           d == run.todo[run.i]
           answer == IF choice = "failed" THEN FailedAnswer ELSE BulkAnswer(d)
           testing_result == extract_testing_fields(answer)
       IN  bulk' = [ bulk EXCEPT ![r] =
                       IF choice = "unreadable" \/ testing_result = << >>
                       THEN NextNotice([ run EXCEPT !.errors = @ + 1 ])
                       ELSE [ run EXCEPT
                                !.pc = "ensuring",
                                !.pending = << excel_fields(testing_result[1]) >>,
                                !.snap = [ exists |-> wbExists, shs |-> sheets ],
                                !.failed = IF answer.ok THEN @ ELSE @ \cup { d } ] ]
    /\ upl' = NoUpload
    /\ UNCHANGED << notices, pdfFiles, runs, edits, qlog >>
    /\ UNCHANGED storeVars
    /\ UNCHANGED normVars
    /\ UNCHANGED raceVars

\* _ensure_workbook_and_sheets, second half, for request r: the new
\* workbook, or the loaded one with the missing model sheets added, is
\* saved
RunEnsureSave(r) ==
    /\ bulk[r].pc = "ensuring"
    /\ sheets' = EnsureWorkbookAndSheets(bulk[r].snap.exists, bulk[r].snap.shs)
    /\ wbExists' = TRUE
    /\ bulk' = [ (IF wbExists' = wbExists /\ sheets' = sheets
                  THEN bulk ELSE Disturbed(bulk, r))
                 EXCEPT ![r].pc = "ensured", ![r].snap = NoSnapshot ]
    /\ upl' = NoUpload
    /\ UNCHANGED << writes, notices, pdfFiles, runs, edits, qlog >>
    /\ UNCHANGED normVars
    /\ UNCHANGED raceVars

\* wb = load_workbook(TESTING_EXCEL_PATH) of _write_row_to_sheet for
\* request r
RunLoadWorkbook(r) ==
    /\ bulk[r].pc = "ensured"
    /\ bulk' = [ bulk EXCEPT ![r].pc = "loaded",
                             ![r].snap = [ exists |-> wbExists, shs |-> sheets ] ]
    /\ upl' = NoUpload
    /\ UNCHANGED << notices, pdfFiles, runs, edits, qlog >>
    /\ UNCHANGED storeVars
    /\ UNCHANGED normVars
    /\ UNCHANGED raceVars

\* the row of the notice is written into the workbook request r has
\* loaded, wb.save(TESTING_EXCEL_PATH) replaces the file and processed is
\* incremented
RunSaveWorkbook(r) ==
    /\ bulk[r].pc = "loaded"
    /\ LET run == bulk[r]
       IN  /\ sheets' = SaveLoaded(sheets, run.snap.shs, run.model,
                                   run.todo[run.i], run.pending[1])
           /\ wbExists' = TRUE
           /\ bulk' = [ (IF wbExists' = wbExists /\ sheets' = sheets
                         THEN bulk ELSE Disturbed(bulk, r))
                        EXCEPT ![r] = NextNotice([ run EXCEPT
                                          !.processed = @ + 1,
                                          !.rowed = @ \cup { run.todo[run.i] } ]) ]
    /\ upl' = NoUpload
    /\ UNCHANGED << writes, notices, pdfFiles, runs, edits, qlog >>
    /\ UNCHANGED normVars
    /\ UNCHANGED raceVars

NextBulk ==
    \/ \E d \in Docs : testing_upload_pdf(d)
    \/ \E m \in ModelSheets, h \in HeaderStates : EditHeader(m, h)
    \/ \E r \in Requests, m \in ModelSheets : testing_bulk_process(r, m)
    \/ \E r \in Requests : VisitNotice(r)
    \/ \E r \in Requests, choice \in VisitChoices : ModelReturns(r, choice)
    \/ \E r \in Requests : RunEnsureSave(r)
    \/ \E r \in Requests : RunLoadWorkbook(r)
    \/ \E r \in Requests : RunSaveWorkbook(r)

SpecBulk == InitBulk /\ [][NextBulk]_vars

----------------------------------------------------------------------------
(* Record Store Adapter: reading a sheet *)

\* dict.get(key): << >> for None, << v >> for the value v
Get(data, key) == IF key \in DOMAIN data THEN << data[key] >> ELSE << >>

\* _sheet_to_dict_by_pdf: nothing when row 1 has no "PDF Name" cell; else
\* the stripped cells of each document's last row
_sheet_to_dict_by_pdf(ws) ==
    IF ws.header = "blank" THEN << >>
    ELSE [ d \in RowDocs(ws) |->
             LET last == CHOOSE i \in 1..Len(ws.rows) :
                            /\ ws.rows[i].pdf = d
                            /\ \A j \in 1..Len(ws.rows) : ws.rows[j].pdf = d => j <= i
             IN  [ col \in FieldCols |-> StrStrip(ws.rows[last].fields[col]) ] ]

\* wb[name] if name in wb.sheetnames, read as a dict; {} for a sheet the
\* workbook does not hold
SheetData(name) ==
    IF sheets[name].present THEN _sheet_to_dict_by_pdf(sheets[name]) ELSE << >>

\* sorted(S) for a set of document identifiers
RECURSIVE Sorted(_)
Sorted(S) ==
    IF S = {} THEN << >>
    ELSE LET least == CHOOSE x \in S : \A y \in S : x <= y
         IN  << least >> \o Sorted(S \ { least })

----------------------------------------------------------------------------
(* Comparator *)

\* compare_fields with the verdict taken over all seven fields
compare_fields_all_seven(master_fields, model_fields) ==
    IF model_fields = << >>
    THEN [ mismatches |-> [ col \in FieldCols |-> TRUE ], status |-> "missing" ]
    ELSE LET mismatches ==
                 [ col \in FieldCols |->
                     normalize_for_comparison(master_fields[col], col)
                        # normalize_for_comparison(model_fields[1][col], col) ]
         IN  [ mismatches |-> mismatches,
               status |-> IF \A f \in FieldCols : ~mismatches[f]
                          THEN "correct" ELSE "incorrect" ]

\* compare_fields that marks nothing for a model without a row
compare_fields_missing_unmarked(master_fields, model_fields) ==
    IF model_fields = << >>
    THEN [ mismatches |-> [ col \in FieldCols |-> FALSE ], status |-> "missing" ]
    ELSE LET mismatches ==
                 [ col \in FieldCols |->
                     normalize_for_comparison(master_fields[col], col)
                        # normalize_for_comparison(model_fields[1][col], col) ]
         IN  [ mismatches |-> mismatches,
               status |-> IF \A f \in vendor_fields : ~mismatches[f]
                          THEN "correct" ELSE "incorrect" ]

\* compare_fields of load_and_compare_testing_excel: model_fields is << >>
\* (None) or << the model's record >>
compare_fields(master_fields, model_fields) ==
    IF model_fields = << >>
    THEN [ mismatches |-> [ col \in FieldCols |-> TRUE ], status |-> "missing" ]
    ELSE LET mismatches ==
                 [ col \in FieldCols |->
                     normalize_for_comparison(master_fields[col], col)
                        # normalize_for_comparison(model_fields[1][col], col) ]
         IN  [ mismatches |-> mismatches,
               status |-> IF \A f \in vendor_fields : ~mismatches[f]
                          THEN "correct" ELSE "incorrect" ]

----------------------------------------------------------------------------
(* Multi-Model Comparison Builder *)

\* one element of the list load_and_compare_testing_excel returns: the
\* Master row and, per model sheet, the model's record (or None), its
\* details_verified and its field_mismatches
ComparisonEntry(s_no, pdf_name, master_data, model_data) ==
    [ s_no     |-> s_no,
      pdf_name |-> pdf_name,
      master   |-> master_data[pdf_name],
      models   |-> [ m \in ModelSheets |->
                       LET model_fields == Get(model_data[m], pdf_name)
                           cmp == compare_fields(master_data[pdf_name], model_fields)
                       IN  [ fields           |-> model_fields,
                             details_verified |-> cmp.status,
                             field_mismatches |-> cmp.mismatches ] ] ]

\* load_and_compare_testing_excel that also leaves out the documents the
\* Gemini sheet has no row for
load_and_compare_skipping_missing ==
    IF ~wbExists THEN << >>
    ELSE IF ~sheets[MASTER_SHEET].present \/ ~sheets[GENERATED_SHEET].present
    THEN << >>
    ELSE LET master_data == SheetData(MASTER_SHEET)
             model_data  == [ m \in ModelSheets |-> SheetData(m) ]
             all_pdfs    == Sorted(DOMAIN master_data \cap DOMAIN model_data[GENERATED_SHEET])
         IN  [ i \in 1..Len(all_pdfs) |->
                 ComparisonEntry(i, all_pdfs[i], master_data, model_data) ]

\* load_and_compare_testing_excel: the all-models view
load_and_compare_testing_excel ==
    IF ~wbExists THEN << >>
    ELSE IF ~sheets[MASTER_SHEET].present \/ ~sheets[GENERATED_SHEET].present
    THEN << >>
    ELSE LET master_data == SheetData(MASTER_SHEET)
             model_data  == [ m \in ModelSheets |-> SheetData(m) ]
             all_pdfs    == Sorted(DOMAIN master_data)
         IN  [ i \in 1..Len(all_pdfs) |->
                 ComparisonEntry(i, all_pdfs[i], master_data, model_data) ]

\* a single-model view that keeps the documents sheet m has no row for,
\* with the verdict "missing"
load_and_compare_only_keeping_missing(m) ==
    IF ~wbExists THEN << >>
    ELSE IF ~sheets[MASTER_SHEET].present \/ ~sheets[m].present
    THEN << >>
    ELSE LET master_data == SheetData(MASTER_SHEET)
             model_data  == SheetData(m)
             all_pdfs    == Sorted(DOMAIN master_data)
         IN  [ i \in 1..Len(all_pdfs) |->
                 LET cmp == compare_fields(master_data[all_pdfs[i]],
                                           Get(model_data, all_pdfs[i]))
                 IN  [ s_no             |-> i,
                       pdf_name         |-> all_pdfs[i],
                       master           |-> master_data[all_pdfs[i]],
                       fields           |-> Get(model_data, all_pdfs[i]),
                       details_verified |-> cmp.status,
                       field_mismatches |-> cmp.mismatches ] ]

\* details_verified of the Gemini view taken over all seven fields
gemini_only_details_verified_all_seven(field_mismatches) ==
    IF \A f \in FieldCols : ~field_mismatches[f] THEN "correct" ELSE "incorrect"

\* the loop over COLUMNS[1:] in load_and_compare_gemini_only: a field is marked
\* when the normalized cells of Master and of Gemini differ
gemini_only_field_mismatches(master_fields, gemini_fields) ==
    [ col \in FieldCols |->
        normalize_for_comparison(master_fields[col], col)
            # normalize_for_comparison(gemini_fields[col], col) ]

\* details_verified in load_and_compare_gemini_only: "correct" when none of
\* the three vendor fields is marked
gemini_only_details_verified(field_mismatches) ==
    IF \A f \in vendor_fields : ~field_mismatches[f] THEN "correct" ELSE "incorrect"

\* load_and_compare_gemini_only: the documents that Master and the Gemini
\* sheet both hold, in sorted order and numbered from 1
load_and_compare_gemini_only ==
    IF ~wbExists THEN << >>
    ELSE IF ~sheets[MASTER_SHEET].present \/ ~sheets[GENERATED_SHEET].present
    THEN << >>
    ELSE LET master_data == SheetData(MASTER_SHEET)
             gemini_data == SheetData(GENERATED_SHEET)
             all_pdfs == Sorted(DOMAIN master_data \cap DOMAIN gemini_data)
         IN  [ i \in 1..Len(all_pdfs) |->
                 LET master_fields == master_data[all_pdfs[i]]
                     gemini_fields == gemini_data[all_pdfs[i]]
                     field_mismatches ==
                         gemini_only_field_mismatches(master_fields, gemini_fields)
                 IN  [ s_no             |-> i,
                       pdf_name         |-> all_pdfs[i],
                       master           |-> master_fields,
                       fields           |-> gemini_fields,
                       details_verified |->
                           gemini_only_details_verified(field_mismatches),
                       field_mismatches |-> field_mismatches ] ]

\* the loop over COLUMNS[1:] in load_and_compare_gpt_5_1_only: a field is marked
\* when the normalized cells of Master and of GPT 5.1 differ
gpt_5_1_only_field_mismatches(master_fields, gpt_fields) ==
    [ col \in FieldCols |->
        normalize_for_comparison(master_fields[col], col)
            # normalize_for_comparison(gpt_fields[col], col) ]

\* details_verified in load_and_compare_gpt_5_1_only: "correct" when none of
\* the three vendor fields is marked
gpt_5_1_only_details_verified(field_mismatches) ==
    IF \A f \in vendor_fields : ~field_mismatches[f] THEN "correct" ELSE "incorrect"

\* load_and_compare_gpt_5_1_only: the documents that Master and the GPT 5.1
\* sheet both hold, in sorted order and numbered from 1
load_and_compare_gpt_5_1_only ==
    IF ~wbExists THEN << >>
    ELSE IF ~sheets[MASTER_SHEET].present \/ ~sheets[GPT_5_1_SHEET].present
    THEN << >>
    ELSE LET master_data == SheetData(MASTER_SHEET)
             gpt_data == SheetData(GPT_5_1_SHEET)
             all_pdfs == Sorted(DOMAIN master_data \cap DOMAIN gpt_data)
         IN  [ i \in 1..Len(all_pdfs) |->
                 LET master_fields == master_data[all_pdfs[i]]
                     gpt_fields == gpt_data[all_pdfs[i]]
                     field_mismatches ==
                         gpt_5_1_only_field_mismatches(master_fields, gpt_fields)
                 IN  [ s_no             |-> i,
                       pdf_name         |-> all_pdfs[i],
                       master           |-> master_fields,
                       fields           |-> gpt_fields,
                       details_verified |->
                           gpt_5_1_only_details_verified(field_mismatches),
                       field_mismatches |-> field_mismatches ] ]

\* the loop over COLUMNS[1:] in load_and_compare_gpt_5_mini_only: a field is marked
\* when the normalized cells of Master and of GPT 5-Mini differ
gpt_5_mini_only_field_mismatches(master_fields, gpt_fields) ==
    [ col \in FieldCols |->
        normalize_for_comparison(master_fields[col], col)
            # normalize_for_comparison(gpt_fields[col], col) ]

\* details_verified in load_and_compare_gpt_5_mini_only: "correct" when none of
\* the three vendor fields is marked
gpt_5_mini_only_details_verified(field_mismatches) ==
    IF \A f \in vendor_fields : ~field_mismatches[f] THEN "correct" ELSE "incorrect"

\* load_and_compare_gpt_5_mini_only: the documents that Master and the GPT 5-Mini
\* sheet both hold, in sorted order and numbered from 1
load_and_compare_gpt_5_mini_only ==
    IF ~wbExists THEN << >>
    ELSE IF ~sheets[MASTER_SHEET].present \/ ~sheets[GPT_5_MINI_SHEET].present
    THEN << >>
    ELSE LET master_data == SheetData(MASTER_SHEET)
             gpt_data == SheetData(GPT_5_MINI_SHEET)
             all_pdfs == Sorted(DOMAIN master_data \cap DOMAIN gpt_data)
         IN  [ i \in 1..Len(all_pdfs) |->
                 LET master_fields == master_data[all_pdfs[i]]
                     gpt_fields == gpt_data[all_pdfs[i]]
                     field_mismatches ==
                         gpt_5_mini_only_field_mismatches(master_fields, gpt_fields)
                 IN  [ s_no             |-> i,
                       pdf_name         |-> all_pdfs[i],
                       master           |-> master_fields,
                       fields           |-> gpt_fields,
                       details_verified |->
                           gpt_5_mini_only_details_verified(field_mismatches),
                       field_mismatches |-> field_mismatches ] ]

\* the single-model view of model sheet m
load_and_compare_only(m) ==
    IF m = GENERATED_SHEET THEN load_and_compare_gemini_only
    ELSE IF m = GPT_5_1_SHEET THEN load_and_compare_gpt_5_1_only
    ELSE load_and_compare_gpt_5_mini_only

----------------------------------------------------------------------------
(* Accuracy Aggregator *)

\* round((correct / total) * 100, 1), in tenths of a percent (75.0 is 750).
\* The quotient is never half-way between two tenths for fewer than 16
\* documents, so the rounding mode does not show.
RoundPercent(correct, total) == (2000 * correct + total) \div (2 * total)

\* the result every metric returns when it has nothing to count
ZeroScores == [ m \in ModelSheets |-> 0 ]

\* the match each metric applies to a Master record and a model row:
\* vendor_match normalizes both sides, the other metrics compare raw cells
FieldsMatch(master_fields, model_fields, fields, normalized) ==
    \A field \in fields :
        IF normalized
        THEN normalize_for_comparison(master_fields[field], field)
                 = normalize_for_comparison(model_fields[field], field)
        ELSE master_fields[field] = model_fields[field]

\* count_correct(sheet_name) of the metrics: the documents of `relevant`
\* (a dict of Master records) whose row in the model sheet matches
count_correct(relevant, sheet_name, fields, normalized) ==
    IF ~sheets[sheet_name].present THEN 0
    ELSE LET model_data == _sheet_to_dict_by_pdf(sheets[sheet_name])
         IN  Cardinality({ pdf_name \in DOMAIN relevant :
                             /\ pdf_name \in DOMAIN model_data
                             /\ FieldsMatch(relevant[pdf_name], model_data[pdf_name],
                                            fields, normalized) })

\* a percentage metric that divides by the number of relevant documents
\* the model sheet holds a row for
AccuracyOverProducedRows(impact_only, fields, normalized) ==
    IF ~wbExists THEN ZeroScores
    ELSE IF ~sheets[MASTER_SHEET].present THEN ZeroScores
    ELSE LET master_data == SheetData(MASTER_SHEET)
             relevant_pdfs ==
                 [ pdf \in { d \in DOMAIN master_data :
                               impact_only =>
                                   master_data[d]["Notice Category"] \in ImpactCategories }
                     |-> master_data[pdf] ]
         IN  IF DOMAIN relevant_pdfs = {} THEN ZeroScores
             ELSE [ m \in ModelSheets |->
                      LET produced == Cardinality(DOMAIN relevant_pdfs \cap DOMAIN SheetData(m))
                      IN  IF produced = 0 THEN 0
                          ELSE RoundPercent(count_correct(relevant_pdfs, m, fields, normalized),
                                            produced) ]

\* the common shape of the four percentage metrics: zero without workbook,
\* without Master sheet or without relevant documents, else the rounded
\* share of the relevant documents whose model row matches; impact_only
\* keeps the Master records of the Disconnect / Late Notice categories
AccuracyOf(impact_only, fields, normalized) ==
    IF ~wbExists THEN ZeroScores
    ELSE IF ~sheets[MASTER_SHEET].present THEN ZeroScores
    ELSE LET master_data == SheetData(MASTER_SHEET)
             relevant_pdfs ==
                 [ pdf \in { d \in DOMAIN master_data :
                               impact_only =>
                                   master_data[d]["Notice Category"] \in ImpactCategories }
                     |-> master_data[pdf] ]
             total_pdfs == Cardinality(DOMAIN relevant_pdfs)
         IN  IF total_pdfs = 0 THEN ZeroScores
             ELSE [ m \in ModelSheets |->
                      RoundPercent(count_correct(relevant_pdfs, m, fields, normalized),
                                   total_pdfs) ]

calculate_overall_accuracy == AccuracyOf(FALSE, vendor_fields, TRUE)

\* an impact-amount accuracy taken over the documents of all categories
calculate_disconnect_late_accuracy_all_categories ==
    AccuracyOf(FALSE, { "Impact Amount" }, FALSE)

calculate_disconnect_late_accuracy == AccuracyOf(TRUE, {"Impact Amount"}, FALSE)

calculate_date_accuracy == AccuracyOf(TRUE, {"Impact Date"}, FALSE)

calculate_notice_date_accuracy == AccuracyOf(FALSE, {"Notice Date"}, FALSE)

\* a bucket rule that leaves a category outside the nine labels where it is
CategoryBucketExact(category) == category

\* the bucket a category is counted in: itself when it is one of the nine
\* labels, else 'Others'
CategoryBucket(category) == IF category \in CategorySet THEN category ELSE V_Others

\* calculate_category_accuracy: per model sheet, the nine percentages in
\* the order of `categories`
calculate_category_accuracy ==
    IF ~wbExists \/ ~sheets[MASTER_SHEET].present
    THEN [ m \in ModelSheets |-> [ i \in 1..Len(categories) |-> 0 ] ]
    ELSE LET master_data == SheetData(MASTER_SHEET)
             category_totals ==
                 [ i \in 1..Len(categories) |->
                     Cardinality({ d \in DOMAIN master_data :
                         CategoryBucket(master_data[d]["Notice Category"]) = categories[i] }) ]
             calculate_accuracy_per_category(sheet_name) ==
                 IF ~sheets[sheet_name].present THEN [ i \in 1..Len(categories) |-> 0 ]
                 ELSE LET model_data == _sheet_to_dict_by_pdf(sheets[sheet_name])
                          category_correct ==
                              [ i \in 1..Len(categories) |->
                                  Cardinality({ d \in DOMAIN master_data \cap DOMAIN model_data :
                                      /\ master_data[d]["Notice Category"]
                                           = model_data[d]["Notice Category"]
                                      /\ CategoryBucket(master_data[d]["Notice Category"])
                                           = categories[i] }) ]
                      IN  [ i \in 1..Len(categories) |->
                              IF category_totals[i] > 0
                              THEN RoundPercent(category_correct[i], category_totals[i])
                              ELSE 0 ]
         IN  [ m \in ModelSheets |-> calculate_accuracy_per_category(m) ]

\* correct-row counts that count the rows with the verdict "correct"
calculate_correct_row_counts_by_verdict ==
    LET comparison == load_and_compare_testing_excel
        perfect(m) == { i \in 1..Len(comparison) :
                          comparison[i].models[m].details_verified = "correct" }
    IN  [ raised |-> comparison = << >>,
          counts |-> [ m \in ModelSheets |->
                         [ correct |-> Cardinality(perfect(m)),
                           total   |-> Len(comparison) ] ] ]

\* calculate_correct_row_counts: per model, the rows of the all-models view
\* without a mismatch in any of the seven fields, and the number of rows.
\* The print after the loops reads the loop variable `row`, which is
\* unbound when the view is empty: the call then raises UnboundLocalError
\* (raised = TRUE) and returns nothing.
calculate_correct_row_counts ==
    LET comparison == load_and_compare_testing_excel
        perfect(m) == { i \in 1..Len(comparison) :
                          \A field \in FieldCols :
                              comparison[i].models[m].field_mismatches[field] # TRUE }
    IN  [ raised |-> comparison = << >>,
          counts |-> [ m \in ModelSheets |->
                         [ correct |-> Cardinality(perfect(m)),
                           total   |-> Len(comparison) ] ] ]

----------------------------------------------------------------------------
(* Queries: the ten GET routes of src/main.py, each of which returns what
   one function of src/testing_service.py computes from the workbook file.
   SpecQuery interleaves them, in any order, with upserts; qlog keeps the
   queries answered since the last upsert. *)

\* the query routes, by the last part of their path
QueryRoutes ==
    { "comparison-results", "comparison-results-gemini",
      "comparison-results-gpt-5-1", "comparison-results-gpt-5-mini",
      "overall-accuracy", "category-accuracy", "disconnect-late-accuracy",
      "impact-date", "notice-date-accuracy", "correct-row-counts" }

\* what the route q returns in the current state
QueryResult(q) ==
    CASE q = "comparison-results" -> load_and_compare_testing_excel
      [] q = "comparison-results-gemini" -> load_and_compare_only(GENERATED_SHEET)
      [] q = "comparison-results-gpt-5-1" -> load_and_compare_only(GPT_5_1_SHEET)
      [] q = "comparison-results-gpt-5-mini" -> load_and_compare_only(GPT_5_MINI_SHEET)
      [] q = "overall-accuracy" -> calculate_overall_accuracy
      [] q = "category-accuracy" -> calculate_category_accuracy
      [] q = "disconnect-late-accuracy" -> calculate_disconnect_late_accuracy
      [] q = "impact-date" -> calculate_date_accuracy
      [] q = "notice-date-accuracy" -> calculate_notice_date_accuracy
      [] q = "correct-row-counts" -> calculate_correct_row_counts

\* a query that calls _ensure_workbook_and_sheets before it loads the file
load_workbook_ensuring(exists, shs) ==
    [ exists |-> TRUE, shs |-> EnsureWorkbookAndSheets(exists, shs) ]

\* the file after a query has read it: os.path.exists and
\* load_workbook(TESTING_EXCEL_PATH, data_only=True), and no save
load_workbook_data_only(exists, shs) ==
    [ exists |-> exists, shs |-> shs ]

\* The workbook is absent, or it was prepared by hand: a Master sheet with
\* the rows of all documents or of all but the last, and a Gemini sheet
\* with the header row.
InitQuery ==
    /\ \/ wbExists = FALSE /\ sheets = NoWorkbook
       \/ /\ wbExists = TRUE
          /\ \E k \in { MaxDocs - 1, MaxDocs } :
                sheets = [ s \in SheetNames |->
                             IF s = MASTER_SHEET THEN CuratedMaster(k)
                             ELSE IF s = GENERATED_SHEET THEN NewModelSheet
                             ELSE AbsentSheet ]
    /\ writes = 0
    /\ NormIdle
    /\ RaceIdle
    /\ AppIdle

\* GET of route q: the function behind it loads the workbook and computes
\* its result
Query(q) ==
    /\ Len(qlog) < MaxQueries
    /\ wbExists' = load_workbook_data_only(wbExists, sheets).exists
    /\ sheets' = load_workbook_data_only(wbExists, sheets).shs
    /\ qlog' = Append(qlog, [ q |-> q, result |-> QueryResult(q) ])
    /\ UNCHANGED writes
    /\ UNCHANGED normVars
    /\ UNCHANGED raceVars
    /\ UNCHANGED uploadVars

NextQuery ==
    \/ \E s \in ModelSheets, d \in Docs, h \in HeaderStates :
          \E r \in OutputsBySheet[s][d] : WriteRow(s, d, r, h)
    \/ \E q \in QueryRoutes : Query(q)

SpecQuery == InitQuery /\ [][NextQuery]_vars

----------------------------------------------------------------------------
(* Runs of the normalizer on enumerated inputs *)

\* "$1,234.56 due"
Ex_DollarAmountDue == << "$", "1", ",", "2", "3", "4", ".", "5", "6", " ", "d", "u", "e" >>
\* "1234.56"
Ex_1234_56 == << "1", "2", "3", "4", ".", "5", "6" >>
\* "no amount"
Ex_NoAmount == << "n", "o", " ", "a", "m", "o", "u", "n", "t" >>
\* "$1,200.00"
Ex_Dollar1200 == << "$", "1", ",", "2", "0", "0", ".", "0", "0" >>
\* "1200.00"
Ex_Plain1200 == << "1", "2", "0", "0", ".", "0", "0" >>
\* "USD 1200"
Ex_Usd1200 == << "U", "S", "D", " ", "1", "2", "0", "0" >>
\* "1200.50"
Ex_Plain1200_50 == << "1", "2", "0", "0", ".", "5", "0" >>
\* "123-Main St, Apt 4"
Ex_AddrPunct == << "1", "2", "3", "-", "M", "a", "i", "n", " ", "S", "t", ",", " ", "A", "p", "t", " ", "4" >>
\* "123 main st apt 4"
Ex_AddrPlain == << "1", "2", "3", " ", "m", "a", "i", "n", " ", "s", "t", " ", "a", "p", "t", " ", "4" >>
\* "123-45, Main St"
Ex_AddrHyphenDigits == << "1", "2", "3", "-", "4", "5", ",", " ", "M", "a", "i", "n", " ", "S", "t" >>
\* "12345 main st"
Ex_AddrJoinedDigits == << "1", "2", "3", "4", "5", " ", "m", "a", "i", "n", " ", "s", "t" >>

\* "x", a form feed, "y": a value with a page break in it
Ex_FormFeedInside == << "x", "\f", "y" >>
\* "x y"
Ex_BlankInside == << "x", " ", "y" >>
\* a no-break space (\xa0), "1", a carriage return and a line feed
Ex_NoBreakSpace1CrLf == << " ", "1", "\r", "\n" >>
\* "1"
Ex_One == << "1" >>

\* the characters of the exhaustively enumerated inputs
NormAlphabet == { "1", ".", ",", "-", " ", "\r", "a", "A" }

RECURSIVE StringsOfLen(_)
StringsOfLen(n) ==
    IF n = 0 THEN { EmptyStr }
    ELSE { Append(s, c) : s \in StringsOfLen(n - 1), c \in NormAlphabet }

\* every string over NormAlphabet of at most MaxLen characters
BoundedStrings == UNION { StringsOfLen(n) : n \in 0..MaxLen }

\* the values an enumerated input is compared with: itself and the values
\* that differ from it in case, commas or hyphens only
Partners(x) ==
    { x, StrLower(x), StrRemove(x, ","), StrRemove(x, "-") }

\* the pairs of values named in the specification's examples, and two
\* pairs that differ in whitespace other than the blank
ExamplePairs ==
    { << Ex_FormFeedInside, Ex_BlankInside >>,
      << Ex_NoBreakSpace1CrLf, Ex_One >>,
      << Ex_DollarAmountDue, Ex_1234_56 >>,
      << Ex_NoAmount, EmptyStr >>,
      << Ex_Dollar1200, Ex_Plain1200 >>,
      << Ex_Dollar1200, Ex_Usd1200 >>,
      << Ex_Plain1200, Ex_Usd1200 >>,
      << Ex_Dollar1200, Ex_Plain1200_50 >>,
      << Ex_Plain1200, Ex_Plain1200_50 >>,
      << Ex_Usd1200, Ex_Plain1200_50 >>,
      << Ex_AddrPunct, Ex_AddrPlain >>,
      << Ex_AddrHyphenDigits, Ex_AddrJoinedDigits >> }

NormInputs ==
    ExamplePairs
        \cup UNION { { << x, y >> : y \in Partners(x) } : x \in BoundedStrings }

NoResult == [ x |-> EmptyStr, y |-> EmptyStr, mismatch |-> FALSE, again |-> EmptyStr ]

InitNorm ==
    /\ wbExists = FALSE
    /\ sheets = NoWorkbook
    /\ writes = 0
    /\ nf \in FieldCols
    /\ \E p \in NormInputs : nx = p[1] /\ ny = p[2]
    /\ npc = "input"
    /\ nout = NoResult
    /\ RaceIdle
    /\ AppIdle

\* normalize both values for field nf and compare them, as compare_fields
\* does for one column
NormalizePair ==
    /\ npc = "input"
    /\ npc' = "normalized"
    /\ nout' = [ nout EXCEPT
                   !.x = normalize_for_comparison(nx, nf),
                   !.y = normalize_for_comparison(ny, nf),
                   !.mismatch = (normalize_for_comparison(nx, nf)
                                    # normalize_for_comparison(ny, nf)) ]
    /\ UNCHANGED << nx, ny, nf >>
    /\ UNCHANGED storeVars
    /\ UNCHANGED raceVars
    /\ UNCHANGED appVars

\* normalize the normalized first value once more
NormalizeAgain ==
    /\ npc = "normalized"
    /\ npc' = "renormalized"
    /\ nout' = [ nout EXCEPT !.again = normalize_for_comparison(nout.x, nf) ]
    /\ UNCHANGED << nx, ny, nf >>
    /\ UNCHANGED storeVars
    /\ UNCHANGED raceVars
    /\ UNCHANGED appVars

NextNorm == NormalizePair \/ NormalizeAgain

SpecNorm == InitNorm /\ [][NextNorm]_vars

----------------------------------------------------------------------------
(* Properties of the comparator and of the all-models view *)

\* model m's table holds a record for document d: the sheet exists and the
\* adapter reads a row keyed by d from it
HasRecord(m, d) == sheets[m].present /\ d \in DOMAIN SheetData(m)

\* no identity field of rec differs from master's after normalization
IdentityMatches(master, rec) ==
    \A f \in vendor_fields :
        normalize_for_comparison(master[f], f) = normalize_for_comparison(rec[f], f)

\* C1: in the all-models view a model's verdict for a document is "missing"
\* iff the model's table holds no record for it; otherwise it is "correct"
\* iff no identity field is mismatched after normalization, else
\* "incorrect", whatever the category, the dates and the amount of the
\* model's record are; the single-model views give the same verdict; a
\* record that differs from ground truth in Notice Date only is "correct"
\* with Notice Date marked mismatched.
C1_VerdictFromIdentityFields ==
    LET view == load_and_compare_testing_excel
    IN  /\ \A i \in 1..Len(view) : \A m \in ModelSheets :
              LET e == view[i]
                  em == e.models[m]
                  verdict == em.details_verified
              IN  /\ (verdict = "missing") <=> ~HasRecord(m, e.pdf_name)
                  /\ HasRecord(m, e.pdf_name) =>
                        LET rec == SheetData(m)[e.pdf_name]
                        IN  /\ verdict = IF IdentityMatches(e.master, rec)
                                         THEN "correct" ELSE "incorrect"
                            /\ ( /\ \A f \in FieldCols \ { "Notice Date" } :
                                       rec[f] = e.master[f]
                                 /\ normalize_for_comparison(rec["Notice Date"], "Notice Date")
                                      # normalize_for_comparison(e.master["Notice Date"],
                                                                 "Notice Date") )
                               => /\ verdict = "correct"
                                  /\ em.field_mismatches["Notice Date"]
        /\ \A m \in ModelSheets :
              LET single == load_and_compare_only(m)
              IN  \A i \in 1..Len(single) :
                     LET e == single[i]
                     IN  e.details_verified = IF IdentityMatches(e.master, e.fields)
                                              THEN "correct" ELSE "incorrect"

\* a document whose Gemini record differs from ground truth in Notice Date
\* only is in the view as "correct", next to a model without a row and a
\* model whose vendor name is wrong
C1_Witness ==
    LET view == load_and_compare_testing_excel
    IN  \E i \in 1..Len(view) :
            LET e == view[i]
            IN  /\ e.models[GENERATED_SHEET].fields
                     = << [ e.master EXCEPT !["Notice Date"] = V_OtherDate ] >>
                /\ e.models[GENERATED_SHEET].details_verified = "correct"
                /\ e.models[GENERATED_SHEET].field_mismatches["Notice Date"]
                /\ e.models[GPT_5_1_SHEET].details_verified = "incorrect"
                /\ e.models[GPT_5_MINI_SHEET].details_verified = "missing"

\* C2: in the all-models view, a ground-truth document that a model's table
\* holds no row for has, for that model, the verdict "missing" and every
\* one of the seven non-key fields marked mismatched.
C2_MissingModelAllMismatched ==
    LET view == load_and_compare_testing_excel
    IN  \A i \in 1..Len(view) : \A m \in ModelSheets :
            LET e == view[i]
                em == e.models[m]
            IN  ~HasRecord(m, e.pdf_name) =>
                    /\ em.details_verified = "missing"
                    /\ em.fields = << >>
                    /\ DOMAIN em.field_mismatches = FieldCols
                    /\ \A col \in FieldCols : em.field_mismatches[col] = TRUE

\* a ground-truth document that has a Gemini row and no GPT 5.1 row
C2_Witness ==
    \E i \in 1..Len(load_and_compare_testing_excel) :
        LET e == load_and_compare_testing_excel[i]
        IN  /\ HasRecord(GENERATED_SHEET, e.pdf_name)
            /\ ~HasRecord(GPT_5_1_SHEET, e.pdf_name)
            /\ sheets[GPT_5_1_SHEET].present

\* C7: calculate_correct_row_counts reports, for each model, a total equal
\* to the number of ground-truth documents the model's table holds a row
\* for; documents with verdict "missing" are not counted.
C7_TotalCountsProducedRows ==
    LET result == calculate_correct_row_counts
    IN  ~result.raised =>
            \A m \in ModelSheets :
                result.counts[m].total
                    = Cardinality({ d \in DOMAIN SheetData(MASTER_SHEET) : HasRecord(m, d) })

\* every percentage metric is zero for model m
MetricsZeroFor(m) ==
    /\ calculate_overall_accuracy[m] = 0
    /\ calculate_disconnect_late_accuracy[m] = 0
    /\ calculate_date_accuracy[m] = 0
    /\ calculate_notice_date_accuracy[m] = 0
    /\ \A i \in 1..Len(categories) : calculate_category_accuracy[m][i] = 0

\* C8: without the workbook or without the Master sheet every query
\* returns an empty view or zero metrics; without a model's sheet that
\* model's single view is empty and its metrics are zero; and no query
\* raises an error, correct-row counts included.
C8_MissingStoreDegradesGracefully ==
    /\ ~calculate_correct_row_counts.raised
    /\ (~wbExists \/ ~sheets[MASTER_SHEET].present) =>
          /\ load_and_compare_testing_excel = << >>
          /\ \A m \in ModelSheets : load_and_compare_only(m) = << >> /\ MetricsZeroFor(m)
          /\ \A m \in ModelSheets :
                calculate_correct_row_counts.counts[m] = [ correct |-> 0, total |-> 0 ]
    /\ \A m \in ModelSheets :
          ~sheets[m].present => load_and_compare_only(m) = << >> /\ MetricsZeroFor(m)

\* C9: no step removes a row from a model table: every document that has a
\* row in a model sheet before a step has one after it.
C9_NoRecordDeleted ==
    [][ \A m \in ModelSheets : RowDocs(sheets[m]) \subseteq RowDocs(sheets'[m]) ]_vars

\* the documents of the all-models view, in its order
ViewDocs ==
    LET view == load_and_compare_testing_excel
    IN  [ i \in 1..Len(view) |-> view[i].pdf_name ]

\* C10 as claimed: the all-models view has exactly one entry per document
\* of the ground-truth table, whichever model tables exist.
C10_OneEntryPerDocumentAnyTables ==
    ViewDocs = Sorted(DOMAIN SheetData(MASTER_SHEET))

\* C10 as amended: when the workbook holds the Master sheet and the Gemini
\* sheet, the all-models view has exactly one entry per document of the
\* ground-truth table, in document order and numbered from 1, whether or
\* not a model has produced output and whether or not the GPT sheets
\* exist, and a model without output or without sheet has the verdict
\* "missing"; without the Gemini sheet the view is empty.
C10_OneEntryPerDocumentGivenGemini ==
    LET view == load_and_compare_testing_excel
    IN  IF wbExists /\ sheets[MASTER_SHEET].present /\ sheets[GENERATED_SHEET].present
        THEN /\ ViewDocs = Sorted(DOMAIN SheetData(MASTER_SHEET))
             /\ \A i \in 1..Len(view) :
                   /\ view[i].s_no = i
                   /\ \A m \in ModelSheets :
                         ~HasRecord(m, view[i].pdf_name)
                            => view[i].models[m].details_verified = "missing"
        ELSE view = << >>

\* two ground-truth documents, a Gemini sheet without rows and no GPT 5.1
\* sheet: both documents are in the view, every model "missing"
C10_Witness ==
    /\ sheets[GENERATED_SHEET].present
    /\ ~sheets[GPT_5_1_SHEET].present
    /\ Len(load_and_compare_testing_excel) = 2
    /\ \A i \in 1..2 : \A m \in ModelSheets :
          load_and_compare_testing_excel[i].models[m].details_verified = "missing"

\* C18: the single-model view of model m holds exactly the documents that
\* have a row in the ground-truth table and in m's table, in document
\* order and numbered from 1 without gaps; a ground-truth document without
\* a row in m's table is left out, so no entry has the verdict "missing".
C18_SingleViewSkipsMissing ==
    \A m \in ModelSheets :
        LET single == load_and_compare_only(m)
            both == { d \in DOMAIN SheetData(MASTER_SHEET) : HasRecord(m, d) }
        IN  /\ [ i \in 1..Len(single) |-> single[i].pdf_name ] = Sorted(both)
            /\ \A i \in 1..Len(single) :
                  /\ single[i].s_no = i
                  /\ single[i].details_verified \in { "correct", "incorrect" }

\* two ground-truth documents and a Gemini row for the second only: the
\* Gemini view has one entry, numbered 1, and the all-models view has two
C18_Witness ==
    /\ DOMAIN SheetData(MASTER_SHEET) = { 1, 2 }
    /\ RowDocs(sheets[GENERATED_SHEET]) = { 2 }
    /\ Len(load_and_compare_only(GENERATED_SHEET)) = 1
    /\ load_and_compare_only(GENERATED_SHEET)[1].s_no = 1
    /\ load_and_compare_only(GENERATED_SHEET)[1].pdf_name = 2
    /\ Len(load_and_compare_testing_excel) = 2

\* C29: when the workbook holds the Master sheet and the three model
\* sheets, the single-model view of model m agrees with m's part of the
\* all-models view: it holds the documents the all-models view does not
\* call "missing" for m, each with the same field_mismatches and the same
\* details_verified, and the number of its "correct" entries is the count
\* that calculate_overall_accuracy divides by the number of documents.
C29_SingleViewAgreesWithAllModelsView ==
    (wbExists /\ \A s \in SheetNames : sheets[s].present) =>
        \A m \in ModelSheets :
            LET single == load_and_compare_only(m)
                view == load_and_compare_testing_excel
            IN  /\ { single[i].pdf_name : i \in 1..Len(single) }
                      = { view[j].pdf_name :
                            j \in { k \in 1..Len(view) :
                                      view[k].models[m].details_verified # "missing" } }
                /\ \A i \in 1..Len(single) : \A j \in 1..Len(view) :
                      view[j].pdf_name = single[i].pdf_name =>
                          /\ view[j].models[m].field_mismatches = single[i].field_mismatches
                          /\ view[j].models[m].details_verified = single[i].details_verified
                /\ Cardinality({ i \in 1..Len(single) :
                                   single[i].details_verified = "correct" })
                      = count_correct(SheetData(MASTER_SHEET), m, vendor_fields, TRUE)

\* all four sheets exist and hold two ground-truth documents; the Gemini
\* view has one entry, "correct" although its Notice Date differs, and the
\* GPT 5.1 view has one entry, "incorrect"; the all-models view has two
C29_Witness ==
    /\ wbExists
    /\ \A s \in SheetNames : sheets[s].present
    /\ Len(load_and_compare_testing_excel) = 2
    /\ Len(load_and_compare_only(GENERATED_SHEET)) = 1
    /\ load_and_compare_only(GENERATED_SHEET)[1].details_verified = "correct"
    /\ load_and_compare_only(GENERATED_SHEET)[1].field_mismatches["Notice Date"]
    /\ count_correct(SheetData(MASTER_SHEET), GENERATED_SHEET, vendor_fields, TRUE) = 1
    /\ Len(load_and_compare_only(GPT_5_1_SHEET)) = 1
    /\ load_and_compare_only(GPT_5_1_SHEET)[1].details_verified = "incorrect"
    /\ count_correct(SheetData(MASTER_SHEET), GPT_5_1_SHEET, vendor_fields, TRUE) = 0

----------------------------------------------------------------------------
(* Properties of the upsert *)

\* the rows of sheet ws that are keyed by document d
RowsOf(ws, d) == { i \in 1..Len(ws.rows) : ws.rows[i].pdf = d }

\* the header rows an upsert into sheet_name can find in the current state
HeadersFound(sheet_name) ==
    IF ~wbExists \/ ~sheets[sheet_name].present THEN { "canonical" } ELSE HeaderStates

\* sheet_name as _write_row_to_sheet(sheet_name, pdf_name, fields) saves it
\* when it runs in the current state and finds the header row found_header
SavedSheet(sheet_name, pdf_name, fields, found_header) ==
    _write_row_to_sheet(wbExists, sheets, sheet_name, pdf_name, fields,
                        found_header)[sheet_name]

\* C14: document identifiers being file names without surrounding blanks,
\* every model table holds at most one row per document after any sequence
\* of sequential upserts, and an upsert of (document, record) into a table,
\* whether or not the table already holds a row for the document with
\* other values, leaves exactly one row for the document, holding the
\* record just written.
C14_UpsertKeyedByDocument ==
    /\ \A m \in ModelSheets : \A d \in Docs : Cardinality(RowsOf(sheets[m], d)) <= 1
    /\ \A m \in ModelSheets : \A h \in HeadersFound(m) :
       \A d \in Docs : \A r \in OutputsBySheet[m][d] :
          LET saved == SavedSheet(m, d, r, h)
          IN  /\ Cardinality(RowsOf(saved, d)) = 1
              /\ \A i \in RowsOf(saved, d) : saved.rows[i].fields = r
              /\ \A e \in Docs : Cardinality(RowsOf(saved, e)) <= 1

\* after two upserts the Gemini table holds one row, for document 1 with
\* the record written last, and an upsert of another record for document 1
\* would replace it
C14_Witness ==
    /\ writes = 2
    /\ Len(sheets[GENERATED_SHEET].rows) = 1
    /\ sheets[GENERATED_SHEET].rows[1]
          = [ pdf |-> 1, fields |-> RowOfAnswer(Answered(FoldedPadded(GT_A))) ]
    /\ \A m \in ModelSheets \ { GENERATED_SHEET } : sheets[m].rows = << >>
    /\ SavedSheet(GENERATED_SHEET, 1, GT_A, "canonical").rows
          = << [ pdf |-> 1, fields |-> GT_A ] >>

\* C15: an upsert repeated at once with the same document and the same
\* record leaves the workbook, and so the model table, exactly as the
\* first upsert saved it.
C15_UpsertIdempotent ==
    \A m \in ModelSheets : \A h \in HeadersFound(m) :
    \A d \in Docs : \A r \in OutputsBySheet[m][d] :
        LET first == _write_row_to_sheet(wbExists, sheets, m, d, r, h)
            again == _write_row_to_sheet(TRUE, first, m, d, r, first[m].header)
        IN  again = first

\* after two upserts the Gemini table holds the ground truth of document 1
\* in its only row, and the same upsert once more changes nothing
C15_Witness ==
    /\ writes = 2
    /\ sheets[GENERATED_SHEET].rows = << [ pdf |-> 1, fields |-> GT_A ] >>
    /\ \A m \in ModelSheets \ { GENERATED_SHEET } : sheets[m].rows = << >>
    /\ _write_row_to_sheet(wbExists, sheets, GENERATED_SHEET, 1, GT_A, "canonical") = sheets

\* callers a and b ran concurrently: neither had the other's row in the
\* workbook it loaded
RanConcurrently(a, b) ==
    /\ a \notin RowDocs(csnap[b].shs[csnap[a].sheet])
    /\ b \notin RowDocs(csnap[a].shs[csnap[b].sheet])

\* C16: upserts are uncoordinated load-modify-save cycles on the whole
\* file: when two upserts for different documents into the same model
\* table have both completed and each had loaded the workbook before the
\* other saved its row, the table does not hold both rows: one caller's
\* row was overwritten by the other's save.
C16_ConcurrentUpsertsLoseRow ==
    \A a \in Callers : \A b \in Callers \ { a } :
        ( /\ cpc[a] = "done" /\ cpc[b] = "done"
          /\ csnap[a].sheet = csnap[b].sheet
          /\ RanConcurrently(a, b) )
            => ~({ a, b } \subseteq RowDocs(sheets[csnap[a].sheet]))

\* the upserts for documents 1 and 2 have both completed and the table
\* holds the row of document 2 only
C16_Witness ==
    /\ cpc[1] = "done"
    /\ cpc[2] = "done"
    /\ csnap[1].sheet = RaceSheet
    /\ csnap[2].sheet = RaceSheet
    /\ RanConcurrently(1, 2)
    /\ RowDocs(sheets[RaceSheet]) = { 2 }

\* C28: upserts into different model sheets are not isolated from each
\* other, because each saves the whole workbook it loaded: when two upserts
\* into two different model sheets have both completed and each had loaded
\* the workbook before the other saved its row, the row of one of them is
\* not in its sheet.
C28_UpsertsToDifferentSheetsLoseRow ==
    \A a \in Callers : \A b \in Callers \ { a } :
        ( /\ cpc[a] = "done" /\ cpc[b] = "done"
          /\ csnap[a].sheet # csnap[b].sheet
          /\ RanConcurrently(a, b) )
            => \/ a \notin RowDocs(sheets[csnap[a].sheet])
               \/ b \notin RowDocs(sheets[csnap[b].sheet])

\* the upsert of document 1 into the Gemini sheet and the upsert of
\* document 2 into the GPT 5.1 sheet have both completed; the GPT 5.1 sheet
\* holds its row and the Gemini sheet holds none
C28_Witness ==
    /\ cpc[1] = "done"
    /\ cpc[2] = "done"
    /\ csnap[1].sheet = GENERATED_SHEET
    /\ csnap[2].sheet = GPT_5_1_SHEET
    /\ RanConcurrently(1, 2)
    /\ RowDocs(sheets[GPT_5_1_SHEET]) = { 2 }
    /\ RowDocs(sheets[GENERATED_SHEET]) = {}

\* the rows of sheet ws that are not keyed by document d, by row number
OtherRows(ws, d) ==
    [ i \in { j \in 1..Len(ws.rows) : ws.rows[j].pdf # d } |-> ws.rows[i] ]

\* C27: an upsert of document d into model m's sheet that finds the header
\* row COLUMNS changes only d's row of that sheet: every other row of the
\* sheet stays in its place with its values, and the rows of the Master
\* sheet and of the other model sheets are the same after it.
C27_UpsertChangesOnlyItsRow ==
    \A m \in ModelSheets : \A d \in Docs : \A r \in OutputsBySheet[m][d] :
        LET saved == _write_row_to_sheet(wbExists, sheets, m, d, r, "canonical")
        IN  /\ OtherRows(saved[m], d) = OtherRows(sheets[m], d)
            /\ \A s \in SheetNames \ { m } : saved[s].rows = sheets[s].rows

\* two upserts have left the Gemini sheet with a row for each of the two
\* documents next to a curated Master sheet; upserting the first document
\* again with another record rewrites the first row only
C27_Witness ==
    /\ writes = 2
    /\ Len(sheets[MASTER_SHEET].rows) = 2
    /\ Len(sheets[GENERATED_SHEET].rows) = 2
    /\ sheets[GENERATED_SHEET].rows[1].pdf = 1
    /\ sheets[GENERATED_SHEET].rows[1].fields # defaults
    /\ sheets[GENERATED_SHEET].rows[2].pdf = 2
    /\ SavedSheet(GENERATED_SHEET, 1, defaults, "canonical").rows
          = << [ pdf |-> 1, fields |-> defaults ], sheets[GENERATED_SHEET].rows[2] >>

----------------------------------------------------------------------------
(* Properties of the accuracy metrics *)

\* the verdict of the comparator for ground-truth document d and model m
Verdict(m, d) ==
    compare_fields(SheetData(MASTER_SHEET)[d], Get(SheetData(m), d)).status

\* C11: when the ground-truth table holds a document, the overall accuracy
\* of a model is the number of ground-truth documents whose verdict for
\* the model is "correct", divided by the number of all ground-truth
\* documents (those the model has no row for included), times 100 and
\* rounded to one decimal; 3 of 4 documents give 75.0, 2 of 3 give 66.7.
C11_OverallAccuracy ==
    LET master_docs == DOMAIN SheetData(MASTER_SHEET)
        overall == calculate_overall_accuracy
        correct == [ m \in ModelSheets |->
                       Cardinality({ d \in master_docs : Verdict(m, d) = "correct" }) ]
    IN  (wbExists /\ master_docs # {}) =>
           \A m \in ModelSheets :
               /\ overall[m] = RoundPercent(correct[m], Cardinality(master_docs))
               /\ (Cardinality(master_docs) = 4 /\ correct[m] = 3) => overall[m] = 750
               /\ (Cardinality(master_docs) = 3 /\ correct[m] = 2) => overall[m] = 667

\* four ground-truth documents; Gemini has rows for three of them, each
\* with the vendor fields of the ground truth and one with another
\* spelling of the Notice Date, and no row for the fourth: 75.0; GPT 5.1
\* has one row, which is right: 25.0; GPT 5-Mini has none: 0
C11_Witness ==
    /\ Cardinality(DOMAIN SheetData(MASTER_SHEET)) = 4
    /\ Cardinality(DOMAIN SheetData(GENERATED_SHEET)) = 3
    /\ \E d \in DOMAIN SheetData(MASTER_SHEET) : ~HasRecord(GENERATED_SHEET, d)
    /\ \E d \in DOMAIN SheetData(GENERATED_SHEET) :
          /\ Verdict(GENERATED_SHEET, d) = "correct"
          /\ SheetData(GENERATED_SHEET)[d]["Notice Date"]
                # SheetData(MASTER_SHEET)[d]["Notice Date"]
    /\ calculate_overall_accuracy[GENERATED_SHEET] = 750
    /\ Cardinality(DOMAIN SheetData(GPT_5_1_SHEET)) = 1
    /\ calculate_overall_accuracy[GPT_5_1_SHEET] = 250
    /\ calculate_overall_accuracy[GPT_5_MINI_SHEET] = 0

\* the Notice Category of ground-truth document d
MasterCategory(d) == SheetData(MASTER_SHEET)[d]["Notice Category"]

\* model m holds a row for d whose Notice Category is string-equal to the
\* ground truth's
CategoryRight(m, d) ==
    HasRecord(m, d) /\ SheetData(m)[d]["Notice Category"] = MasterCategory(d)

\* the percentage of `bucket` (a set of ground-truth documents) that model
\* m classified right; 0 for an empty bucket
BucketAccuracy(m, bucket) ==
    IF bucket = {} THEN 0
    ELSE RoundPercent(Cardinality({ d \in bucket : CategoryRight(m, d) }),
                      Cardinality(bucket))

\* C12 as claimed: the bucket of each of the nine labels holds exactly the
\* ground-truth documents whose Notice Category equals the label, and its
\* accuracy is the share of them whose model Notice Category is
\* string-equal; a category outside the nine labels is in no bucket.
C12_CategoryBucketsExactLabel ==
    LET result == calculate_category_accuracy
        master_docs == DOMAIN SheetData(MASTER_SHEET)
    IN  \A m \in ModelSheets : \A i \in 1..Len(categories) :
            result[m][i] = BucketAccuracy(m, { d \in master_docs :
                                                 MasterCategory(d) = categories[i] })

\* C12 as amended: the bucket of a label holds the ground-truth documents
\* whose Notice Category equals the label, and the "Others" bucket holds in
\* addition every ground-truth document whose Notice Category is none of
\* the nine labels; the accuracy of a bucket is the share of its documents
\* for which the model has a row whose Notice Category is string-equal
\* (no normalization) to the ground truth's, and 0 for an empty bucket.
C12_CategoryBucketsOthersCatchAll ==
    LET result == calculate_category_accuracy
        master_docs == DOMAIN SheetData(MASTER_SHEET)
    IN  \A m \in ModelSheets : \A i \in 1..Len(categories) :
            result[m][i] = BucketAccuracy(m, { d \in master_docs :
                                \/ MasterCategory(d) = categories[i]
                                \/ /\ categories[i] = V_Others
                                   /\ MasterCategory(d) \notin CategorySet })

\* Gemini repeats the unlisted category of one ground-truth document
\* ("Others" is 100.0) and writes "late notice" for a "Late Notice"
\* document (that bucket is 0)
C12_Witness ==
    /\ \E d \in DOMAIN SheetData(MASTER_SHEET) :
          /\ MasterCategory(d) = V_Unlisted
          /\ CategoryRight(GENERATED_SHEET, d)
    /\ \E d \in DOMAIN SheetData(MASTER_SHEET) :
          /\ MasterCategory(d) = V_LateNotice
          /\ HasRecord(GENERATED_SHEET, d)
          /\ SheetData(GENERATED_SHEET)[d]["Notice Category"] = StrLower(V_LateNotice)
    /\ calculate_category_accuracy[GENERATED_SHEET][Len(categories)] = 1000
    /\ calculate_category_accuracy[GENERATED_SHEET][1] = 0

\* model m holds a row for ground-truth document d and none of the seven
\* fields differs from the ground truth's after normalization
AllSevenMatch(m, d) ==
    /\ HasRecord(m, d)
    /\ \A col \in FieldCols :
          normalize_for_comparison(SheetData(MASTER_SHEET)[d][col], col)
              = normalize_for_comparison(SheetData(m)[d][col], col)

\* C13: when calculate_correct_row_counts returns, the `correct` count of a
\* model is the number of ground-truth documents for which the model has a
\* row with all seven fields unmismatched after normalization; a row that
\* differs from the ground truth in Notice Date only has the verdict
\* "correct" and is not counted.
C13_CorrectRowsAllSevenFields ==
    LET result == calculate_correct_row_counts
        master_data == SheetData(MASTER_SHEET)
    IN  ~result.raised =>
            \A m \in ModelSheets :
                /\ result.counts[m].correct
                      = Cardinality({ d \in DOMAIN master_data : AllSevenMatch(m, d) })
                /\ \A d \in DOMAIN master_data :
                      ( /\ HasRecord(m, d)
                        /\ SheetData(m)[d]
                             = [ master_data[d] EXCEPT !["Notice Date"] = V_OtherDate ] )
                      => /\ Verdict(m, d) = "correct"
                         /\ ~AllSevenMatch(m, d)

\* one ground-truth document: the Gemini row differs in Notice Date only
\* (verdict "correct", not counted), the GPT 5.1 row is the ground truth
\* (counted)
C13_Witness ==
    /\ DOMAIN SheetData(MASTER_SHEET) = { 1 }
    /\ HasRecord(GENERATED_SHEET, 1)
    /\ SheetData(GENERATED_SHEET)[1] = [ GT_A EXCEPT !["Notice Date"] = V_OtherDate ]
    /\ HasRecord(GPT_5_1_SHEET, 1)
    /\ SheetData(GPT_5_1_SHEET)[1] = GT_A
    /\ ~calculate_correct_row_counts.raised
    /\ calculate_correct_row_counts.counts[GENERATED_SHEET].correct = 0
    /\ calculate_correct_row_counts.counts[GPT_5_1_SHEET].correct = 1

\* C30: when calculate_correct_row_counts returns, the `correct` count of
\* every model is at most the number of ground-truth documents whose
\* verdict for the model is "correct" (a row without a mismatch in any of
\* the seven fields has none in the three identity fields), and at most
\* `total`.
C30_CorrectRowsAtMostVerdictCorrect ==
    LET result == calculate_correct_row_counts
        master_docs == DOMAIN SheetData(MASTER_SHEET)
    IN  ~result.raised =>
            \A m \in ModelSheets :
                /\ result.counts[m].correct
                      <= Cardinality({ d \in master_docs : Verdict(m, d) = "correct" })
                /\ result.counts[m].correct <= result.counts[m].total

\* two ground-truth documents: Gemini has the verdict "correct" on both but
\* only one of its rows is perfect (1 of 2, below the 2 verdicts); GPT 5.1
\* has no row and counts 0 of 2
C30_Witness ==
    /\ DOMAIN SheetData(MASTER_SHEET) = { 1, 2 }
    /\ \A d \in { 1, 2 } : HasRecord(GENERATED_SHEET, d) /\ Verdict(GENERATED_SHEET, d) = "correct"
    /\ sheets[GPT_5_1_SHEET].present
    /\ \A d \in { 1, 2 } : ~HasRecord(GPT_5_1_SHEET, d)
    /\ ~calculate_correct_row_counts.raised
    /\ calculate_correct_row_counts.counts[GENERATED_SHEET] = [ correct |-> 1, total |-> 2 ]
    /\ calculate_correct_row_counts.counts[GPT_5_1_SHEET] = [ correct |-> 0, total |-> 2 ]

\* the ground-truth documents of an impact-bearing category
ImpactDocs ==
    { d \in DOMAIN SheetData(MASTER_SHEET) : MasterCategory(d) \in ImpactCategories }

\* the ground-truth documents counted in the bucket of categories[i]
BucketDocs(i) ==
    { d \in DOMAIN SheetData(MASTER_SHEET) :
        \/ MasterCategory(d) = categories[i]
        \/ categories[i] = V_Others /\ MasterCategory(d) \notin CategorySet }

\* the five percentage metrics each report 0 where their denominator is
\* zero
ZeroDenominatorsGiveZero ==
    /\ DOMAIN SheetData(MASTER_SHEET) = {} =>
          \A m \in ModelSheets :
              calculate_overall_accuracy[m] = 0 /\ calculate_notice_date_accuracy[m] = 0
    /\ ImpactDocs = {} =>
          \A m \in ModelSheets :
              calculate_disconnect_late_accuracy[m] = 0 /\ calculate_date_accuracy[m] = 0
    /\ \A i \in 1..Len(categories) :
          BucketDocs(i) = {} =>
              \A m \in ModelSheets : calculate_category_accuracy[m][i] = 0

\* C17: a zero denominator gives 0: without ground-truth documents the
\* overall and the notice-date accuracy of every model are 0, without
\* impact-bearing ground-truth documents the impact-amount and the
\* impact-date accuracy are 0, a category without ground-truth documents
\* reports 0 for every model; and no metric raises, the correct-row counts
\* included.
C17_ZeroDenominatorsNeverFault ==
    /\ ZeroDenominatorsGiveZero
    /\ ~calculate_correct_row_counts.raised

\* the cells of the row of document d in sheet `name` as they are stored
\* (the last row, if the sheet holds several for d)
StoredRecord(name, d) ==
    LET last == CHOOSE i \in RowsOf(sheets[name], d) :
                    \A j \in RowsOf(sheets[name], d) : j <= i
    IN  sheets[name].rows[last].fields

\* the share of the documents `docs` for which model m has a row that
\* satisfies right[d], as a percentage
ShareRight(m, docs, right) ==
    RoundPercent(Cardinality({ d \in docs : HasRecord(m, d) /\ right[d] }),
                 Cardinality(docs))

\* C19 as claimed: the impact-amount and the impact-date accuracy are taken
\* over the ground-truth documents of the categories "Disconnect Notice"
\* and "Late Notice", and a document counts for a metric iff the model's
\* cell of that metric's field holds the very string of the ground truth's
\* cell.
C19_ImpactMetricsStoredStrings ==
    ImpactDocs # {} =>
        \A m \in ModelSheets :
            /\ calculate_disconnect_late_accuracy[m]
                  = ShareRight(m, ImpactDocs,
                        [ d \in ImpactDocs |->
                            HasRecord(m, d) =>
                                StoredRecord(m, d)["Impact Amount"]
                                    = StoredRecord(MASTER_SHEET, d)["Impact Amount"] ])
            /\ calculate_date_accuracy[m]
                  = ShareRight(m, ImpactDocs,
                        [ d \in ImpactDocs |->
                            HasRecord(m, d) =>
                                StoredRecord(m, d)["Impact Date"]
                                    = StoredRecord(MASTER_SHEET, d)["Impact Date"] ])

\* C19 as amended: the impact-amount and the impact-date accuracy are taken
\* over the ground-truth documents of the categories "Disconnect Notice"
\* and "Late Notice" (those without a model row included in the
\* denominator), and a document counts for a metric iff the model has a
\* row whose value of that metric's field, as the adapter reads it (the
\* cell without leading and trailing whitespace), is string-equal to the
\* ground truth's value read the same way; the other field and the
\* normalizer play no part.
C19_ImpactMetricsTrimmedStrings ==
    ImpactDocs # {} =>
        \A m \in ModelSheets :
            /\ calculate_disconnect_late_accuracy[m]
                  = ShareRight(m, ImpactDocs,
                        [ d \in ImpactDocs |->
                            HasRecord(m, d) =>
                                SheetData(m)[d]["Impact Amount"]
                                    = SheetData(MASTER_SHEET)[d]["Impact Amount"] ])
            /\ calculate_date_accuracy[m]
                  = ShareRight(m, ImpactDocs,
                        [ d \in ImpactDocs |->
                            HasRecord(m, d) =>
                                SheetData(m)[d]["Impact Date"]
                                    = SheetData(MASTER_SHEET)[d]["Impact Date"] ])

\* a late notice whose Master row was typed with blanks around the dates
\* and the amount, and a notice of another category; Gemini stored the
\* ground truth (amount 100.0, date 100.0 although the stored cells differ
\* from Master's); GPT 5.1 stored another amount and the same impact date
\* (amount 0, date 100.0)
C19_Witness ==
    /\ DOMAIN SheetData(MASTER_SHEET) = { 1, 2 }
    /\ ImpactDocs = { 1 }
    /\ StoredRecord(MASTER_SHEET, 1)["Impact Amount"] = Padded(V_Amount_A)
    /\ StoredRecord(MASTER_SHEET, 1)["Impact Date"] = Padded(V_ImpactDate_A)
    /\ HasRecord(GENERATED_SHEET, 1)
    /\ StoredRecord(GENERATED_SHEET, 1) = GT_A
    /\ HasRecord(GPT_5_1_SHEET, 1)
    /\ StoredRecord(GPT_5_1_SHEET, 1)["Impact Amount"] = V_OtherAmount
    /\ StoredRecord(GPT_5_1_SHEET, 1)["Impact Date"] = V_ImpactDate_A
    /\ calculate_disconnect_late_accuracy[GENERATED_SHEET] = 1000
    /\ calculate_date_accuracy[GENERATED_SHEET] = 1000
    /\ calculate_disconnect_late_accuracy[GPT_5_1_SHEET] = 0
    /\ calculate_date_accuracy[GPT_5_1_SHEET] = 1000

\* the value without its whitespace, commas and hyphens, in lower case
WithoutForm(value) ==
    StrLower(SelectSeq(value, LAMBDA ch : ~IsSpace(ch) /\ ch \notin { ",", "-" }))

\* the values a and b differ, and by case, commas, hyphens or spacing only
DiffersInFormOnly(a, b) == a # b /\ WithoutForm(a) = WithoutForm(b)

\* C20: the notice-date accuracy is taken over all ground-truth documents
\* and a document counts iff the model's Notice Date cell holds the very
\* string of the ground truth's cell; so a Notice Date that differs from
\* the ground truth's by case, commas, hyphens or spacing only is counted
\* as wrong, while the normalized comparison does not mark it mismatched.
C20_NoticeDateStoredStrings ==
    LET master_docs == DOMAIN SheetData(MASTER_SHEET)
    IN  master_docs # {} =>
            \A m \in ModelSheets :
                /\ calculate_notice_date_accuracy[m]
                      = ShareRight(m, master_docs,
                            [ d \in master_docs |->
                                HasRecord(m, d) =>
                                    StoredRecord(m, d)["Notice Date"]
                                        = StoredRecord(MASTER_SHEET, d)["Notice Date"] ])
                /\ \A d \in master_docs :
                      ( /\ HasRecord(m, d)
                        /\ DiffersInFormOnly(StoredRecord(MASTER_SHEET, d)["Notice Date"],
                                             StoredRecord(m, d)["Notice Date"]) )
                      => ~compare_fields(SheetData(MASTER_SHEET)[d],
                                         << SheetData(m)[d] >>).mismatches["Notice Date"]

----------------------------------------------------------------------------
(* Properties of the uploads and of the bulk-process runs *)

\* the rows of the model sheets
ModelRows ==
    UNION { { sheets[m].rows[i].fields : i \in 1..Len(sheets[m].rows) } : m \in ModelSheets }

\* C22: every row a bulk-process run wrote into a model sheet has Impact
\* Date "NA" and Impact Amount "NA" unless its Notice Category is "Late
\* Notice" or "Disconnect Notice", whatever the model answered and also
\* when the call of the model failed.
C22_ImpactFieldsOnlyForImpactCategories ==
    \A r \in ModelRows :
        r["Notice Category"] \notin ImpactCategories
            => r["Impact Date"] = V_NA /\ r["Impact Amount"] = V_NA

\* a run has returned after writing the row of a notice the model filed
\* under Maintenance with an impact date and an amount, and the row of a
\* notice for which the call of the model failed
C22_Witness ==
    \E r \in Requests :
        /\ bulk[r].pc = "returned"
        /\ bulk[r].processed = 2
        /\ \E d \in Docs :
              /\ d \notin bulk[r].failed
              /\ BulkAnswer(d).data["Impact Amount"] = << V_Amount_A >>
              /\ FirstRow(sheets[RouteSheet], d)
                   = << [ defaults EXCEPT
                            !["Vendor Account Number"] = V_Account_B,
                            !["Notice Category"] = V_Maintenance,
                            !["Notice Date"] = V_NoticeDate_B ] >>
        /\ \E d \in bulk[r].failed :
              FirstRow(sheets[RouteSheet], d) = << defaults >>

\* request r takes the step VisitNotice
Visits(r) ==
    /\ bulk[r].pc = "visit"
    /\ bulk'[r].pc # "visit" \/ bulk'[r].i # bulk[r].i

\* request r takes the step RunSaveWorkbook
Saves(r) ==
    /\ bulk[r].pc = "loaded"
    /\ bulk'[r].pc # "loaded"

\* C23: a bulk-process run only creates rows: a notice whose document has a
\* row in the model's table when it is visited is counted as skipped and
\* the model is not called for it, and a row that a run writes leaves every
\* row the table holds as it is.
C23_BulkNeverOverwrites ==
    [][ \A r \in Requests :
          /\ ( /\ Visits(r)
               /\ FirstRow(sheets[RouteSheet], bulk[r].todo[bulk[r].i]) # << >> )
                 => /\ bulk'[r].pc # "extract"
                    /\ bulk'[r].skipped = bulk[r].skipped + 1
          /\ Saves(r) =>
                 \A d \in Docs :
                     FirstRow(sheets[RouteSheet], d) # << >> =>
                         FirstRow(sheets'[RouteSheet], d) = FirstRow(sheets[RouteSheet], d)
      ]_vars

\* the filename d is a key of the Master sheet
InGroundTruth(d) ==
    wbExists /\ sheets[MASTER_SHEET].present /\ d \in DOMAIN SheetData(MASTER_SHEET)

\* C24: an upload whose filename is not a key of the Master sheet (or
\* without workbook or Master sheet) is answered with 400, writes no file
\* and adds no TestingNotice; a TestingNotice is added only for a filename
\* that is a key of the Master sheet at that moment.
C24_UploadRejectedUnlessInMaster ==
    [][ /\ (upl'.status # 0 /\ ~InGroundTruth(upl'.filename)) =>
              /\ upl'.status = 400
              /\ notices' = notices
              /\ pdfFiles' = pdfFiles
        /\ notices' # notices =>
              \E d \in Docs : InGroundTruth(d) /\ notices' = Append(notices, d)
      ]_vars

\* an upload was accepted and the next one, of a document the Master sheet
\* does not hold, was answered with 400
C24_Witness ==
    /\ upl.status = 400
    /\ ~InGroundTruth(upl.filename)
    /\ Len(notices) = 1
    /\ pdfFiles = { notices[1] }

\* the documents for which a call of the model has failed so far
FailedDocs == UNION { bulk[r].failed : r \in Requests }

\* C25: a failed call of the model gives the all-default record: the run
\* writes it as the model's row and counts the notice as processed, not as
\* an error; and no later visit of a document whose extraction has failed
\* calls the model again.
C25_FailedExtractionNeverRetried ==
    /\ [][ \A r \in Requests :
             (bulk[r].pc = "extract" /\ bulk'[r].pc # "extract"
                  /\ bulk'[r].failed # bulk[r].failed)
                 => /\ bulk'[r].pending = << defaults >>
                    /\ bulk'[r].errors = bulk[r].errors
         ]_vars
    /\ [][ \A r \in Requests :
             (Saves(r) /\ bulk[r].pending = << defaults >>)
                 => /\ FirstRow(sheets'[RouteSheet], bulk[r].todo[bulk[r].i]) = << defaults >>
                    /\ bulk'[r].processed = bulk[r].processed + 1
                    /\ bulk'[r].errors = bulk[r].errors
         ]_vars
    /\ [][ \A r \in Requests :
             (Visits(r) /\ bulk[r].todo[bulk[r].i] \in FailedDocs)
                 => bulk'[r].pc # "extract"
         ]_vars

\* request r returns its response
Returns(r) ==
    /\ bulk[r].pc # "returned"
    /\ bulk'[r].pc = "returned"

\* C26: when a run returns without errors, every notice it has written a
\* row for or skipped for its row, and whose PDF file exists, has exactly
\* one row in the model's table; and a run that follows at once processes
\* no notice.
C26_BulkRunCompletes ==
    [][ \A r \in Requests :
          Returns(r) =>
              /\ bulk'[r].errors = 0 =>
                    \A d \in bulk'[r].rowed \cap pdfFiles' :
                        Cardinality({ k \in 1..Len(sheets'[RouteSheet].rows) :
                                        sheets'[RouteSheet].rows[k].pdf = d }) = 1
              /\ bulk'[r].follows => bulk'[r].processed = 0
      ]_vars

----------------------------------------------------------------------------
(* Properties of the queries *)

\* C21: the comparison and metric queries are read-only: a step that
\* answers a query, whatever was queried before it, leaves the workbook
\* file and every sheet in it as they were, a query answered again with no
\* upsert in between returns the same result, and a step that changes the
\* workbook is the upsert of one model's row.
C21_QueriesReadOnly ==
    /\ [] ( \A i \in 1..Len(qlog) : \A j \in 1..Len(qlog) :
               qlog[i].q = qlog[j].q => qlog[i].result = qlog[j].result )
    /\ [][ /\ Len(qlog') = Len(qlog) + 1 => (wbExists' = wbExists /\ sheets' = sheets)
           /\ (wbExists' # wbExists \/ sheets' # sheets) =>
                 /\ writes' = writes + 1
                 /\ \E m \in ModelSheets, d \in Docs, h \in HeaderStates :
                       \E r \in OutputsBySheet[m][d] :
                          sheets' = _write_row_to_sheet(wbExists, sheets, m, d, r, h)
         ]_vars

\* after an upsert into the Gemini sheet the overall accuracy was asked
\* for twice and was 50.0 both times, the row still in place
C21_Witness ==
    /\ writes = 1
    /\ Len(sheets[GENERATED_SHEET].rows) = 1
    /\ Len(qlog) = 2
    /\ qlog[1].q = "overall-accuracy"
    /\ qlog[2].q = "overall-accuracy"
    /\ qlog[1].result[GENERATED_SHEET] = 500
    /\ qlog[2].result[GENERATED_SHEET] = 500

----------------------------------------------------------------------------
(* Properties of the normalizer *)

\* the amount the specification describes: every character that is no
\* digit and no decimal point is dropped, then the first numeral is taken
AmountAfterStripping(value) ==
    FirstNumber(SelectSeq(value, LAMBDA ch : ch \in Digits \/ ch = "."))

\* C3: for Impact Amount the normalizer returns the first numeral of the
\* value with every character that is no digit and no decimal point
\* stripped; "$1,234.56 due" gives "1234.56" and "no amount" gives "".
C3_AmountExtraction ==
    (npc # "input" /\ nf = "Impact Amount") =>
        /\ nout.x = AmountAfterStripping(nx)
        /\ nx = Ex_DollarAmountDue => nout.x = Ex_1234_56
        /\ nx = Ex_NoAmount => nout.x = EmptyStr

\* the pairs of the specification's example that denote the same amount
SameAmountExamples ==
    { << Ex_Dollar1200, Ex_Plain1200 >>,
      << Ex_Dollar1200, Ex_Usd1200 >>,
      << Ex_Plain1200, Ex_Usd1200 >> }

\* the pairs of the specification's example that denote different amounts
DifferentAmountExamples ==
    { << Ex_Dollar1200, Ex_Plain1200_50 >>,
      << Ex_Plain1200, Ex_Plain1200_50 >>,
      << Ex_Usd1200, Ex_Plain1200_50 >> }

\* C4: compared as Impact Amount, "$1,200.00", "1200.00" and "USD 1200"
\* are not mismatched with each other, and each is mismatched with
\* "1200.50".
C4_AmountComparison ==
    (npc # "input" /\ nf = "Impact Amount") =>
        /\ << nx, ny >> \in SameAmountExamples => ~nout.mismatch
        /\ << nx, ny >> \in DifferentAmountExamples => nout.mismatch

\* C5: normalizing a normalized value changes nothing, for every field.
C5_NormalizeIdempotent ==
    npc = "renormalized" => nout.again = nout.x

\* C6: for the fields other than Impact Amount, "123-Main St, Apt 4" and
\* "123 main st apt 4" are not mismatched, and no value is mismatched with
\* the same value in lower case, without its commas or without its hyphens.
C6_GeneralFold ==
    (npc # "input" /\ nf # "Impact Amount") =>
        /\ (nx = Ex_AddrPunct /\ ny = Ex_AddrPlain) => ~nout.mismatch
        /\ ny \in Partners(nx) => ~nout.mismatch

====
